---- MODULE Spec2Model ----
(***************************************************************************)
(* Agent Turn Engine of Fuse-Agent-bot: AgentClient.handleUserPrompt, the  *)
(* Turn Protocol Codec (mapResponseToLinearActivityContent), the context   *)
(* parser (parseIssueContext) and the SQLite session state store.          *)
(*                                                                         *)
(* Texts are sequences of tokens: a token is a maximal run of word         *)
(* characters ("ISSUE_COMMENTS", "getTime") or one punctuation or          *)
(* whitespace character (":", ",", "(", ")", " ", "\n").  A marker such as *)
(* "ACTION:" is the word followed by the ":" token.                        *)
(*                                                                         *)
(* An optional value is a sequence of length 0 (null / undefined) or 1.    *)
(***************************************************************************)
EXTENDS Integers, Sequences, FiniteSets, TLC

\* ---------------------------------------------------------------- bounds
MaxTurns == 2
MaxFaults == 1
MaxTicks == 1
MsPerTick == 1000

Sessions == {"s1", "s2"}
\* The sessions that receive deliveries under Spec.
Routed == {"s1"}
Workers == {"w1", "w2"}

\* ------------------------------------------------------- optional values
Null == <<>>
Some(x) == <<x>>
IsSome(o) == Len(o) = 1
Get(o) == o[1]

\* ---------------------------------------------------- text (token) helpers
Whitespace == {" ", "\n"}
NonWord == {" ", "\n", ":", ",", "(", ")", ".", "\"", "/"}
IsWord(t) == t \notin NonWord

StartsWith(s, p) == Len(s) >= Len(p) /\ SubSeq(s, 1, Len(p)) = p

\* Positions at which p occurs in s.
Occurrences(s, p) ==
  {i \in 1..(Len(s) - Len(p) + 1) : SubSeq(s, i, i + Len(p) - 1) = p}

Min(S) == CHOOSE x \in S : \A y \in S : x <= y

\* String.prototype.indexOf, 1-based; 0 when p does not occur.
IndexOf(s, p) == IF Occurrences(s, p) = {} THEN 0 ELSE Min(Occurrences(s, p))

Drop(s, n) == SubSeq(s, n + 1, Len(s))

\* Length of the longest prefix of s made of whitespace.
LeadingWs(s) ==
  IF \A i \in 1..Len(s) : s[i] \in Whitespace THEN Len(s)
  ELSE Min({i \in 1..Len(s) : s[i] \notin Whitespace}) - 1

TrailingWs(s) ==
  IF \A i \in 1..Len(s) : s[i] \in Whitespace THEN Len(s)
  ELSE Len(s) - (CHOOSE i \in 1..Len(s) :
                   /\ s[i] \notin Whitespace
                   /\ \A j \in (i + 1)..Len(s) : s[j] \in Whitespace)

\* String.prototype.trim
Trim(s) ==
  IF LeadingWs(s) = Len(s) THEN <<>>
  ELSE SubSeq(s, LeadingWs(s) + 1, Len(s) - TrailingWs(s))

Max(S) == CHOOSE x \in S : \A y \in S : x >= y

RemoveFirst_Last(s, p) ==
  IF Occurrences(s, p) = {} THEN s
  ELSE SubSeq(s, 1, Max(Occurrences(s, p)) - 1)
         \o SubSeq(s, Max(Occurrences(s, p)) + Len(p), Len(s))

\* String.prototype.replace(p, ""): the first occurrence of p removed.
RemoveFirst(s, p) ==
  IF IndexOf(s, p) = 0 THEN s
  ELSE SubSeq(s, 1, IndexOf(s, p) - 1) \o Drop(s, IndexOf(s, p) + Len(p) - 1)

\* Tokens of s up to (not including) the first token in stop, or all of s.
TakeUntil(s, stop) ==
  IF \A i \in 1..Len(s) : s[i] \notin stop THEN s
  ELSE SubSeq(s, 1, Min({i \in 1..Len(s) : s[i] \in stop}) - 1)

\* String.prototype.split(sep) for a one-character separator.
RECURSIVE Split(_, _)
Split(s, sep) ==
  IF \A i \in 1..Len(s) : s[i] # sep THEN <<s>>
  ELSE <<TakeUntil(s, {sep})>> \o Split(Drop(s, Len(TakeUntil(s, {sep})) + 1), sep)

\* ------------------------------------------------------------ types.ts
Thought == "thought"
Action == "action"
Response == "response"
Elicitation == "elicitation"
Error == "error"
UserResponse == "userResponse"
ToolResult == "toolResult"
AgentActivityType ==
  {Thought, Action, Response, Elicitation, Error, UserResponse, ToolResult}

\* The ToolName union type.
ToolName ==
  {"getCoordinates", "getWeather", "getTime", "forkRepository",
   "readJsonFromRepo", "createPullRequest", "checkAssociatedRepo",
   "getRepositoryInfo"}

isToolName_NoCheck(value) == TRUE

\* The runtime guard: it lists six of the eight names.
isToolName(value) ==
  value \in {"getCoordinates", "getWeather", "getTime", "forkRepository",
             "readJsonFromRepo", "createPullRequest"}

\* Content: one record shape for every variant; a field a variant does not
\* carry is Null.
BodyContent(type, body) ==
  [type |-> type, body |-> Some(body), action |-> Null, parameter |-> Null]
ElicitationContent(body, parameter) ==
  [type |-> Elicitation, body |-> Some(body), action |-> Null,
   parameter |-> parameter]
ActionContent(action, parameter) ==
  [type |-> Action, body |-> Null, action |-> Some(action),
   parameter |-> parameter]

\* A value of the Content union of types.ts.
IsContent(c) ==
  /\ c.type \in AgentActivityType
  /\ IF c.type = Action
       THEN IsSome(c.action) /\ Get(c.action) \in ToolName /\ c.body = Null
       ELSE IsSome(c.body) /\ c.action = Null
  /\ (c.type \notin {Action, Elicitation} => c.parameter = Null)

\* ------------------------------------------------- Turn Protocol Codec
typeToKeyword ==
  <<[type |-> Thought, keyword |-> <<"THINKING", ":">>],
    [type |-> Action, keyword |-> <<"ACTION", ":">>],
    [type |-> Response, keyword |-> <<"RESPONSE", ":">>],
    [type |-> Elicitation, keyword |-> <<"ELICITATION", ":">>],
    [type |-> Error, keyword |-> <<"ERROR", ":">>],
    [type |-> UserResponse, keyword |-> <<"USER_RESPONSE", ":">>]>>

KeywordOf(type) ==
  typeToKeyword[CHOOSE i \in 1..Len(typeToKeyword) :
                  typeToKeyword[i].type = type].keyword

\* Object.entries(typeToKeyword).find(startsWith) || Thought
MappedType(response) ==
  LET hits == {i \in 1..Len(typeToKeyword) :
                 StartsWith(response, typeToKeyword[i].keyword)}
  IN IF hits = {} THEN Thought ELSE typeToKeyword[Min(hits)].type

Returned(c) == [threw |-> FALSE, content |-> c, message |-> <<>>]
Thrown(m) ==
  [threw |-> TRUE, content |-> BodyContent(Error, <<>>), message |-> m]

InvalidToolName(toolNameRaw) ==
  <<"Invalid", " ", "tool", " ", "name", ":", " ", toolNameRaw>>

\* /ELICITATION:\s*([^:]+):\s*(.*)/ tried at the marker occurrence i.
ElicitationMatchesAt(r, i) ==
  LET rest == Drop(r, i + 1)
  IN IndexOf(rest, <<":">>) > 1

ElicitationParameter(r, i) ==
  LET rest == Drop(r, i + 1)
      between == SubSeq(rest, 1, IndexOf(rest, <<":">>) - 1)
      group == IF LeadingWs(between) = Len(between)
                 THEN <<between[Len(between)]>>
                 ELSE Drop(between, LeadingWs(between))
  IN Trim(group)

ElicitationQuestion(r, i) ==
  LET rest == Drop(r, i + 1)
      after == Drop(rest, IndexOf(rest, <<":">>))
  IN Trim(TakeUntil(Drop(after, LeadingWs(after)), {"\n"}))

\* /ACTION:\s*(\w+)\(([^)]*)\)/ tried at the marker occurrence i.
ActionCallMatchesAt(r, i) ==
  LET rest == Drop(r, i + 1)
      call == Drop(rest, LeadingWs(rest))
  IN /\ Len(call) >= 3
     /\ IsWord(call[1])
     /\ call[2] = "("
     /\ \E j \in 3..Len(call) : call[j] = ")"

ActionCallName(r, i) ==
  LET rest == Drop(r, i + 1) IN Drop(rest, LeadingWs(rest))[1]

ActionCallParams(r, i) ==
  LET rest == Drop(r, i + 1)
      call == Drop(rest, LeadingWs(rest))
  IN TakeUntil(Drop(call, 2), {")"})

\* /ACTION:\s*(\w+)/ tried at the marker occurrence i.
ActionNameMatchesAt(r, i) ==
  LET rest == Drop(r, i + 1)
      call == Drop(rest, LeadingWs(rest))
  IN Len(call) >= 1 /\ IsWord(call[1])

\* AgentClient.mapResponseToLinearActivityContent: the decoded Content, or
\* the Error it throws.
mapResponseToLinearActivityContent(response) ==
  LET type == MappedType(response)
      keyword == KeywordOf(type)
      marks == Occurrences(response, keyword)
      stripped == Trim(RemoveFirst(response, keyword))
      elicit == {i \in marks : ElicitationMatchesAt(response, i)}
      calls == {i \in marks : ActionCallMatchesAt(response, i)}
      names == {i \in marks : ActionNameMatchesAt(response, i)}
  IN CASE type \in {Thought, Response, Error, UserResponse} ->
            Returned(BodyContent(type, stripped))
       [] type = Elicitation ->
            IF elicit # {}
              THEN Returned(ElicitationContent(
                     ElicitationQuestion(response, Min(elicit)),
                     Some(ElicitationParameter(response, Min(elicit)))))
              ELSE Returned(ElicitationContent(stripped, Null))
       [] type = Action ->
            IF calls # {}
              THEN IF ~isToolName(ActionCallName(response, Min(calls)))
                     THEN Thrown(InvalidToolName(
                            ActionCallName(response, Min(calls))))
                     ELSE Returned(ActionContent(
                            ActionCallName(response, Min(calls)),
                            IF ActionCallParams(response, Min(calls)) = <<>>
                              THEN Null
                              ELSE Some(ActionCallParams(response, Min(calls)))))
            ELSE IF names # {}
              THEN IF ~isToolName(ActionCallName(response, Min(names)))
                     THEN Thrown(InvalidToolName(
                            ActionCallName(response, Min(names))))
                     ELSE Returned(ActionContent(
                            ActionCallName(response, Min(names)), Null))
            ELSE Returned(BodyContent(Error,
                   <<"Invalid", " ", "action", " ", "format", ":", " ">>
                     \o response))

\* ------------------------------------------------------ parseIssueContext
REQUIRED_ELICITATION == <<"REQUIRED_ELICITATION">>

\* { ...a, ...b }
Spread(a, b) ==
  [k \in DOMAIN a \cup DOMAIN b |-> IF k \in DOMAIN b THEN b[k] ELSE a[k]]

EmptyContext == [k \in {} |-> <<>>]
Put(context, key, value) == Spread(context, [k \in {key} |-> value])

\* /ISSUE_DESCRIPTION:([\s\S]*?)(?=ISSUE_COMMENTS:|$)/
DescriptionOf(userPrompt) ==
  LET i == IndexOf(userPrompt, <<"ISSUE_DESCRIPTION", ":">>)
      rest == Drop(userPrompt, i + 1)
      j == IndexOf(rest, <<"ISSUE_COMMENTS", ":">>)
  IN IF i = 0 THEN Null
     ELSE Some(Trim(IF j = 0 THEN rest ELSE SubSeq(rest, 1, j - 1)))

\* /REQUIRED_PARAMS:([^\n]+)/ then split(',').map(trim)
RequiredParamsOf(userPrompt) ==
  LET hits == {i \in Occurrences(userPrompt, <<"REQUIRED_PARAMS", ":">>) :
                 /\ i + 2 <= Len(userPrompt)
                 /\ userPrompt[i + 2] # "\n"}
      line == TakeUntil(Drop(userPrompt, Min(hits) + 1), {"\n"})
      parts == Split(line, ",")
  IN IF hits = {} THEN <<>>
     ELSE [n \in 1..Len(parts) |-> Trim(parts[n])]

\* /ISSUE_COMMENTS:([\s\S]*)/ then split('\n') and the non-blank lines.
CommentLinesOf(userPrompt) ==
  LET i == IndexOf(userPrompt, <<"ISSUE_COMMENTS", ":">>)
  IN IF i = 0 THEN <<>>
     ELSE SelectSeq(Split(Drop(userPrompt, i + 1), "\n"),
                    LAMBDA line : Trim(line) # <<>>)

RECURSIVE AddComments_SecondPartOnly(_, _)
AddComments_SecondPartOnly(context, comments) ==
  IF comments = <<>> THEN context
  ELSE LET comment == Head(comments)
           parts == Split(comment, ":")
           key == parts[1]
           value == IF Len(parts) > 1 THEN Trim(parts[2]) ELSE <<>>
       IN AddComments_SecondPartOnly(
            IF key # <<>> /\ Len(parts) > 1
              THEN Put(context, key, value) ELSE context,
            Tail(comments))

\* comments.forEach: key = text before the first ':', value = the rest.
RECURSIVE AddComments(_, _)
AddComments(context, comments) ==
  IF comments = <<>> THEN context
  ELSE LET comment == Head(comments)
           parts == Split(comment, ":")
           key == parts[1]
           value == Trim(Drop(comment, Len(key) + 1))
       IN AddComments(
            IF key # <<>> /\ Len(parts) > 1
              THEN Put(context, key, value) ELSE context,
            Tail(comments))

RECURSIVE AddRequired_Overwrite(_, _)
AddRequired_Overwrite(context, requiredParams) ==
  IF requiredParams = <<>> THEN context
  ELSE AddRequired_Overwrite(
         Put(context, Head(requiredParams), REQUIRED_ELICITATION),
         Tail(requiredParams))

\* requiredParams.forEach: seed the sentinel unless (param in context).
RECURSIVE AddRequired(_, _)
AddRequired(context, requiredParams) ==
  IF requiredParams = <<>> THEN context
  ELSE AddRequired(
         IF Head(requiredParams) \in DOMAIN context THEN context
         ELSE Put(context, Head(requiredParams), REQUIRED_ELICITATION),
         Tail(requiredParams))

parseIssueContext(userPrompt) ==
  LET described ==
        IF IsSome(DescriptionOf(userPrompt))
          THEN Put(EmptyContext, <<"description">>,
                   Get(DescriptionOf(userPrompt)))
          ELSE EmptyContext
  IN AddRequired(AddComments(described, CommentLinesOf(userPrompt)),
                 RequiredParamsOf(userPrompt))

\* ------------------------------------------------------------ inputs
\* generateUserPrompt's "Task: " followed by the comment body
\* "ISSUE_DESCRIPTION: fix bug\nISSUE_COMMENTS:\nkey: val\nurl: a:b"
PromptIssue ==
  <<"Task", ":", " ",
    "ISSUE_DESCRIPTION", ":", " ", "fix", " ", "bug", "\n",
    "ISSUE_COMMENTS", ":", "\n", "key", ":", " ", "val", "\n",
    "url", ":", " ", "a", ":", "b">>
\* "Task: " followed by the comment body
\* "REQUIRED_PARAMS: key,repo\nISSUE_COMMENTS:\nrepo: x"
PromptRequired ==
  <<"Task", ":", " ",
    "REQUIRED_PARAMS", ":", " ", "key", ",", "repo", "\n",
    "ISSUE_COMMENTS", ":", "\n", "repo", ":", " ", "x">>
\* generateUserPrompt's result with neither issue title nor comment body
PromptEmpty == <<>>
Prompts == {PromptIssue, PromptRequired, PromptEmpty}

\* response.choices[0]?.message?.content: a text, or none.
ReplyResponse == Some(<<"RESPONSE", ":", " ", "Done", ".">>)
ReplyAction == Some(<<"ACTION", ":", " ", "getTime", "(", "x", ")">>)
ReplyBadTool == Some(<<"ACTION", ":", " ", "notARealTool", "(", "x", ")">>)
ReplyNone == Null
ModelReplies == {ReplyResponse, ReplyAction, ReplyBadTool, ReplyNone}
\* error.message of a failed chat.completions.create
ModelErrors == {<<"timeout">>}

\* ------------------------------------------------------------- state
VARIABLES
  stateStorage,  \* session_states table: session id -> optional row
  turn,          \* per worker: the handleUserPrompt call in flight
  ticks,         \* the clock
  delivered,     \* per session: the completed calls, as their callers saw them
  turnsBegun,    \* number of handleUserPrompt calls begun
  faults,        \* number of store failures so far
  codec,         \* one text on its way through decode, encode, decode
  tokens,        \* per credential store: key -> optional value
  env,           \* process.env as getStorage reads it
  oauth,         \* per caller: the getOAuthToken call in flight
  refreshes,     \* the refresh requests sent to the identity provider
  tokenCalls,    \* number of getOAuthToken and handleOAuthCallback calls completed
  issued,        \* per workspace: the token its last successful exchange stored
  callbacks,     \* number of handleOAuthCallback calls begun
  encryption,    \* the encryptFn / decryptFn pair the session store was built with
  storeCall,     \* the last call of a method of the session store
  lastSaved      \* per session: what the last saveState wrote, while its row is there

codecVars == <<codec>>
oauthVars == <<tokens, env, oauth, refreshes, tokenCalls, issued,
              callbacks>>
storeVars == <<encryption, storeCall, lastSaved>>
vars == <<stateStorage, turn, ticks, delivered, turnsBegun, faults,
          codecVars, oauthVars, storeVars>>

\* Date.now()
Now == ticks * MsPerTick

CURRENT_STATE_VERSION == 1

\* The fresh state of getOrInitializeState.
NewState_WrongVersion(now) ==
  [activityMessages |-> Some(<<>>), issueContext |-> Some(EmptyContext),
   lastUpdated |-> now, version |-> 0]

NewState(now) ==
  [activityMessages |-> Some(<<>>), issueContext |-> Some(EmptyContext),
   lastUpdated |-> now, version |-> 1]

\* A text of the state column is represented by whether it is JSON text
\* and, when it is, by the value it denotes.  The values stringified here
\* hold only strings, numbers, null, arrays and plain objects, and an
\* optional key that is not set is absent (never undefined-valued), so
\* JSON.stringify loses nothing of them.
JSONstringify(value) == [json |-> TRUE, value |-> value]
\* JSON.parse throws a SyntaxError on text that is not JSON.
JSONparseThrows(text) == ~text.json
JSONparse(text) == text.value
\* Text that is not JSON.
NotJSONText == [json |-> FALSE, value |-> <<>>]

\* state.version !== row.version (line 78); a parsed object without a
\* version member has version undefined.
VersionMismatch(state, version) ==
  IF "version" \in DOMAIN state THEN state.version # version ELSE TRUE

\* Lines 74-87 on the text to parse: the state, or null when JSON.parse
\* throws or the versions differ.
Parsed_NoVersionCheck(stateString, version) ==
  IF JSONparseThrows(stateString) THEN Null
  ELSE Some(JSONparse(stateString))

Parsed(stateString, version) ==
  IF JSONparseThrows(stateString) THEN Null
  ELSE IF VersionMismatch(JSONparse(stateString), version) THEN Null
  ELSE Some(JSONparse(stateString))

\* SQLiteStateStorage.getState with no decryptFn: the parsed state, or null
\* for a missing row, text that does not parse or a version mismatch.
getState(row) ==
  IF row = Null THEN Null ELSE Parsed(Get(row).state, Get(row).version)

\* SQLiteStateStorage.saveState with no encryptFn: the row INSERT OR REPLACE
\* writes.
saveStateRow_CurrentVersion(state, now) ==
  [state |-> JSONstringify(state), version |-> CURRENT_STATE_VERSION,
   last_updated |-> now \div 1000]

saveStateRow(state, now) ==
  [state |-> JSONstringify(state), version |-> state.version,
   last_updated |-> now \div 1000]

\* INSERT OR REPLACE INTO session_states ... VALUES (sessionId, ...): the
\* row of that session id is written, the others are left.
Upsert_EveryRow(table, sessionId, row) == [s \in DOMAIN table |-> Some(row)]

Upsert(table, sessionId, row) == [table EXCEPT ![sessionId] = Some(row)]

\* AgentClient.createMessagesFromState
createMessagesFromState(state) ==
  [i \in 1..Len(Get(state.activityMessages)) |->
     [role |-> "user",
      content |-> <<Get(state.activityMessages)[i].type, ":", " ">>
                    \o (IF IsSome(Get(state.activityMessages)[i].body)
                          THEN Get(Get(state.activityMessages)[i].body)
                          ELSE <<>>)]]

\* errorContent of handleUserPrompt's catch block
ErrorContent(message) == BodyContent(Error, <<"Error", ":", " ">> \o message)

PlaceholderToolResult == <<"Placeholder", " ", "tool", " ", "result">>

Push_Front(state, content) ==
  [state EXCEPT !.activityMessages = Some(<<content>> \o Get(@))]

\* state.activityMessages.push(content)
Push(state, content) ==
  [state EXCEPT !.activityMessages = Some(Append(Get(@), content))]

\* No text is being decoded.
IdleCodec == [response |-> <<>>, activity |-> Null, line |-> Null, again |-> Null]

\* The workspaces (webhook.organizationId) and the callers of getOAuthToken.
Workspaces == {"W1", "W2"}
Callers == {"c1", "c2"}
AGENT_TOKEN_KEY_PREFIX == "agent_token_"
getWorkspaceTokenKey(workspaceId) == <<AGENT_TOKEN_KEY_PREFIX, workspaceId>>
TokenKeys == {getWorkspaceTokenKey(w) : w \in Workspaces}
\* The stores getStorage can return: the tokens table of SQLiteStorage and
\* the map of MemoryStorage.
Backends == {"sqlite", "memory"}
NoTokens == [b \in Backends |-> [k \in TokenKeys |-> Null]]
\* process.env: STORAGE_TYPE = 'sqlite', else NODE_ENV = 'production', else
\* anything else.
Envs == {"sqlite", "production", "development"}
\* No exchange has succeeded for any workspace.
NoneIssued == [w \in Workspaces |-> Null]
\* No getOAuthToken or handleOAuthCallback call is in flight.
IdleCall ==
  [pc |-> "idle", op |-> "", workspaceId |-> "", backend |-> Null,
   tokenStr |-> Null, tokenData |-> Null, response |-> Null, newToken |-> Null,
   result |-> Null, threw |-> FALSE, status |-> 0, checkedAt |-> 0,
   sent |-> <<>>, calls |-> <<>>, later |-> FALSE]

\* No method of the session store has been called.
IdleStoreCall ==
  [op |-> "", sessionId |-> "", state |-> Null, olderThanDays |-> 0,
   at |-> 0, key |-> Null, decrypted |-> Null, result |-> Null,
   before |-> [s \in Sessions |-> Null],
   savedAt |-> [s \in Sessions |-> Null]]
\* index.ts:180 builds the store with no encryptFn and no decryptFn.
StoreAsBuilt ==
  /\ encryption = "none"
  /\ storeCall = IdleStoreCall
  /\ lastSaved = [s \in Sessions |-> Null]

IdleTurn ==
  [pc |-> "idle", sessionId |-> "", userPrompt |-> <<>>,
   state |-> NewState(0), messages |-> <<>>,
   response |-> Null, content |-> BodyContent(Thought, <<>>),
   calls |-> <<>>, saves |-> <<>>, prior |-> Null, loaded |-> Null]

Init ==
  /\ stateStorage = [s \in Sessions |-> Null]
  /\ turn = [w \in Workers |-> IdleTurn]
  /\ ticks = 0
  /\ delivered = [s \in Sessions |-> <<>>]
  /\ turnsBegun = 0
  /\ faults = 0
  /\ StoreAsBuilt
  /\ codec = IdleCodec
  /\ tokens = NoTokens
  /\ env = "development"
  /\ oauth = [c \in Callers |-> IdleCall]
  /\ refreshes = <<>>
  /\ tokenCalls = 0
  /\ callbacks = 0
  /\ issued = NoneIssued

\* A session_states row written before this process started.
PriorMessages ==
  <<BodyContent(UserResponse, <<"hi">>), BodyContent(Response, <<"hello">>)>>
PriorContext == [k \in {<<"key">>} |-> <<"old">>]
RowWellFormed ==
  [state |-> JSONstringify(
     [activityMessages |-> Some(PriorMessages),
      issueContext |-> Some(PriorContext),
      lastUpdated |-> 0, version |-> 1]),
   version |-> 1, last_updated |-> 0]
\* '{"issueContext":{"key":"old"},"lastUpdated":0,"version":1}'
RowNoMessages ==
  [state |-> JSONstringify(
     [activityMessages |-> Null,
      issueContext |-> Some(PriorContext),
      lastUpdated |-> 0, version |-> 1]),
   version |-> 1, last_updated |-> 0]
RowVersionMismatch ==
  [state |-> JSONstringify(
     [activityMessages |-> Some(PriorMessages),
      issueContext |-> Some(PriorContext),
      lastUpdated |-> 0, version |-> 2]),
   version |-> 1, last_updated |-> 0]
PreloadedRows == {RowWellFormed, RowNoMessages, RowVersionMismatch}

InitDurable ==
  /\ stateStorage \in [Sessions -> {Null} \cup {Some(r) : r \in PreloadedRows}]
  /\ turn = [w \in Workers |-> IdleTurn]
  /\ ticks = 0
  /\ delivered = [s \in Sessions |-> <<>>]
  /\ turnsBegun = 0
  /\ faults = 0
  /\ StoreAsBuilt
  /\ codec = IdleCodec
  /\ tokens = NoTokens
  /\ env = "development"
  /\ oauth = [c \in Callers |-> IdleCall]
  /\ refreshes = <<>>
  /\ tokenCalls = 0
  /\ callbacks = 0
  /\ issued = NoneIssued

\* --------------------------------------------------------------- actions
\* A webhook delivery calls handleUserPrompt(agentSessionId, userPrompt).
handleUserPrompt(w, agentSessionId, userPrompt) ==
  /\ turn[w].pc = "idle"
  /\ turnsBegun < MaxTurns
  /\ turnsBegun' = turnsBegun + 1
  /\ turn' = [turn EXCEPT ![w] =
       [IdleTurn EXCEPT !.pc = "getOrInitializeState",
                        !.sessionId = agentSessionId,
                        !.userPrompt = userPrompt,
                        !.prior = stateStorage[agentSessionId]]]
  /\ UNCHANGED <<stateStorage, ticks, delivered, faults, codecVars, oauthVars, storeVars>>

\* Deliveries are serialized: no other call is in flight.
Serialized == \A v \in Workers : turn[v].pc = "idle"

MergeContext_PriorWins(prior, issueContext) == Spread(issueContext, prior)

\* state.issueContext = { ...state.issueContext, ...issueContext }
MergeContext(prior, issueContext) == Spread(prior, issueContext)

\* parseIssueContext(userPrompt) for each prompt a delivery carries; a pure
\* function of the prompt, evaluated once per prompt.
IssueContexts == [userPrompt \in Prompts |-> parseIssueContext(userPrompt)]

\* Lines 486-496 once getOrInitializeState has returned `state`: merge the
\* parsed context, push the UserResponse, build the messages.  The push is
\* outside the try block: with no activityMessages array it throws out of
\* handleUserPrompt.
FoldInput(t, state, call) ==
  LET merged == [state EXCEPT !.issueContext =
                   Some(MergeContext(
                          IF IsSome(@) THEN Get(@) ELSE EmptyContext,
                          IssueContexts[t.userPrompt]))]
      pushed == Push(merged, BodyContent(UserResponse, t.userPrompt))
  IN IF ~IsSome(state.activityMessages)
       THEN [t EXCEPT !.pc = "thrown", !.state = merged,
                      !.calls = Append(@, call)]
       ELSE [t EXCEPT !.pc = "callOpenAI", !.state = pushed,
                      !.messages = createMessagesFromState(pushed),
                      !.calls = Append(@, call)]

\* `if (state) return state;` and the fresh state otherwise (lines 547-555).
OrInitialize(state, now) == IF IsSome(state) THEN Get(state) ELSE NewState(now)

\* getOrInitializeState: the stored state, or a fresh one when there is none
\* or when getState throws.
getOrInitializeState(w) ==
  /\ turn[w].pc = "getOrInitializeState"
  /\ \/ /\ turn' = [turn EXCEPT ![w] =
             FoldInput([@ EXCEPT !.loaded = stateStorage[turn[w].sessionId]],
               OrInitialize(getState(stateStorage[turn[w].sessionId]), Now),
               "getState")]
        /\ UNCHANGED faults
     \/ /\ faults < MaxFaults
        /\ faults' = faults + 1
        /\ turn' = [turn EXCEPT ![w] =
             FoldInput(@, NewState(Now), "getState:throws")]
  /\ UNCHANGED <<stateStorage, ticks, delivered, turnsBegun, codecVars, oauthVars, storeVars>>

Caught_NoPush(t, message, call) ==
  [t EXCEPT !.pc = "saveState:catch",
            !.content = ErrorContent(message),
            !.calls = Append(@, call)]

\* The catch block of handleUserPrompt, up to its await of saveState.
Caught(t, message, call) ==
  [t EXCEPT !.pc = "saveState:catch",
            !.content = ErrorContent(message),
            !.state = Push(@, ErrorContent(message)),
            !.calls = Append(@, call)]

\* Lines 499-503 with the model's reply: decode, push.
Decoded(t, response) ==
  LET mapped == mapResponseToLinearActivityContent(response)
  IN IF mapped.threw
       THEN Caught(t, mapped.message, "chat.completions.create")
       ELSE [t EXCEPT !.pc = "saveState:content",
                      !.content = mapped.content,
                      !.state = Push(@, mapped.content),
                      !.calls = Append(@, "chat.completions.create")]

\* response.choices[0]?.message?.content || "No response"
ContentOrDefault(reply) ==
  IF reply = Null \/ Get(reply) = <<>>
    THEN <<"No", " ", "response">> ELSE Get(reply)

\* new Error(`OpenAI API error: ${error.message}`)
OpenAIError(e) == <<"OpenAI", " ", "API", " ", "error", ":", " ">> \o e

\* callOpenAI: the reply's content, "No response" when it has none, or the
\* wrapped error.
callOpenAI(w) ==
  /\ turn[w].pc = "callOpenAI"
  /\ \/ \E reply \in ModelReplies :
          turn' = [turn EXCEPT ![w] =
            Decoded([@ EXCEPT !.response = Some(ContentOrDefault(reply))],
                    ContentOrDefault(reply))]
     \/ \E e \in ModelErrors :
          turn' = [turn EXCEPT ![w] =
            Caught(@, OpenAIError(e), "chat.completions.create:throws")]
  /\ UNCHANGED <<stateStorage, ticks, delivered, turnsBegun, faults, codecVars, oauthVars, storeVars>>

AfterSave_AwaitsRetry(t, saved) ==
  IF ~saved THEN "saveState:retry"
  ELSE IF t.pc = "saveState:content" /\ t.content.type = Action
    THEN "executeAction" ELSE "return"

AfterSave_StopsOnFailure(t, saved) ==
  IF saved /\ t.pc = "saveState:content" /\ t.content.type = Action
    THEN "executeAction" ELSE "return"

\* Where handleUserPrompt goes on after an awaited saveState; saveState has
\* caught a throw of the store, so `saved` changes nothing.
AfterSave(t, saved) ==
  IF t.pc = "saveState:content" /\ t.content.type = Action
    THEN "executeAction" ELSE "return"

\* AgentClient.saveState: stamp lastUpdated, write the row; a throw of the
\* store is caught and logged.
saveState(w) ==
  /\ turn[w].pc \in {"saveState:content", "saveState:result", "saveState:catch"}
  /\ LET t == turn[w]
         stamped == [t.state EXCEPT !.lastUpdated = Now]
     IN \/ /\ stateStorage' = Upsert(stateStorage, t.sessionId,
                                    saveStateRow(stamped, Now))
           /\ turn' = [turn EXCEPT ![w] =
                [t EXCEPT !.pc = AfterSave(t, TRUE), !.state = stamped,
                          !.calls = Append(@, "saveState"),
                          !.saves = Append(@,
                            [ok |-> TRUE, before |-> stateStorage[t.sessionId],
                             after |-> Some(saveStateRow(stamped, Now))])]]
           /\ UNCHANGED faults
        \/ /\ faults < MaxFaults
           /\ faults' = faults + 1
           /\ turn' = [turn EXCEPT ![w] =
                [t EXCEPT !.pc = AfterSave(t, FALSE), !.state = stamped,
                          !.calls = Append(@, "saveState:throws"),
                          !.saves = Append(@,
                            [ok |-> FALSE, before |-> stateStorage[t.sessionId],
                             after |-> stateStorage[t.sessionId]])]]
           /\ UNCHANGED stateStorage
  /\ UNCHANGED <<ticks, delivered, turnsBegun, codecVars, oauthVars, storeVars>>

\* AgentClient.executeAction (a placeholder) and the push of its ToolResult.
executeAction(w) ==
  /\ turn[w].pc = "executeAction"
  /\ turn' = [turn EXCEPT ![w] =
       [@ EXCEPT !.pc = "saveState:result",
                 !.state = Push(@, BodyContent(ToolResult, PlaceholderToolResult)),
                 !.calls = Append(@, "executeAction")]]
  /\ UNCHANGED <<stateStorage, ticks, delivered, turnsBegun, faults, codecVars, oauthVars, storeVars>>

\* The Tool Dispatcher of the specification may fail; the placeholder
\* executeAction of the source cannot.  A throw of the awaited executeAction
\* lands in the catch block of handleUserPrompt.
executeActionThrows(w) ==
  /\ turn[w].pc = "executeAction"
  /\ turn' = [turn EXCEPT ![w] =
       Caught(@, <<"tool", " ", "failed">>, "executeAction:throws")]
  /\ UNCHANGED <<stateStorage, ticks, delivered, turnsBegun, faults, codecVars, oauthVars, storeVars>>

ReturnValue_LastMessage(t) ==
  Get(t.state.activityMessages)[Len(Get(t.state.activityMessages))]

\* `return content` (line 520) / `return errorContent` (line 529)
ReturnValue(t) == t.content

\* handleUserPrompt settles: `return content` / `return errorContent`, or
\* the rejection of a throw outside the try block.
Return(w) ==
  /\ turn[w].pc \in {"return", "thrown"}
  /\ delivered' = [delivered EXCEPT ![turn[w].sessionId] =
       Append(@, [userPrompt |-> turn[w].userPrompt,
                  threw |-> turn[w].pc = "thrown",
                  content |-> ReturnValue(turn[w]),
                  calls |-> turn[w].calls])]
  /\ turn' = [turn EXCEPT ![w] = IdleTurn]
  /\ UNCHANGED <<stateStorage, ticks, turnsBegun, faults, codecVars, oauthVars, storeVars>>

\* Time passes.
Tick ==
  /\ ticks < MaxTicks
  /\ ticks' = ticks + 1
  /\ UNCHANGED <<stateStorage, turn, delivered, turnsBegun, faults, codecVars, oauthVars, storeVars>>

\* The steps of the turns.  A serialized delivery finds every worker idle;
\* it is given to the first.
NextTurns ==
  \/ \E s \in Routed, p \in Prompts :
       Serialized /\ handleUserPrompt("w1", s, p)
  \/ \E w \in Workers : getOrInitializeState(w)
  \/ \E w \in Workers : callOpenAI(w)
  \/ \E w \in Workers : saveState(w)
  \/ \E w \in Workers : executeAction(w)
  \/ \E w \in Workers : Return(w)

Next == NextTurns \/ Tick

\* Serialized deliveries to one session on a store that starts empty.
Spec == Init /\ [][Next]_vars

\* The same deliveries, all within one reading of the clock: every Date.now()
\* of the turns returns the same value.
SpecTurns == Init /\ [][NextTurns]_vars

\* Serialized deliveries on a store that holds rows of an earlier process.
SpecDurable == InitDurable /\ [][Next]_vars

\* Spec with a Tool Dispatcher that can fail.
NextDispatcher == Next \/ \E w \in Workers : executeActionThrows(w)
SpecDispatcher == Init /\ [][NextDispatcher]_vars

\* Deliveries as the webhook route makes them: each request calls
\* handleUserPrompt at once, whatever other call is awaiting its store or the
\* model, also one for the same session.
NextRace ==
  \/ \E w \in Workers, s \in Routed, p \in Prompts :
       turnsBegun < Cardinality(Workers) /\ handleUserPrompt(w, s, p)
  \/ \E w \in Workers : getOrInitializeState(w)
  \/ \E w \in Workers : callOpenAI(w)
  \/ \E w \in Workers : saveState(w)
  \/ \E w \in Workers : executeAction(w)
  \/ \E w \in Workers : Return(w)

\* Two deliveries, one to each worker, for a session that is new or has the
\* row of an earlier turn.
InitRace ==
  /\ stateStorage \in {[s \in Sessions |-> IF s \in Routed THEN row ELSE Null] :
                         row \in {Null, Some(RowWellFormed)}}
  /\ turn = [w \in Workers |-> IdleTurn]
  /\ ticks = 0
  /\ delivered = [s \in Sessions |-> <<>>]
  /\ turnsBegun = 0
  /\ faults = 0
  /\ StoreAsBuilt
  /\ codec = IdleCodec
  /\ tokens = NoTokens
  /\ env = "development"
  /\ oauth = [c \in Callers |-> IdleCall]
  /\ refreshes = <<>>
  /\ tokenCalls = 0
  /\ callbacks = 0
  /\ issued = NoneIssued
SpecRace == InitRace /\ [][NextRace]_vars

\* Two serialized deliveries with a Tool Dispatcher that can fail, to a
\* session that is new or has a row of an earlier turn, well formed or
\* without activityMessages.
NextLive ==
  \/ \E s \in Routed, p \in Prompts :
       Serialized /\ turnsBegun < 2 /\ handleUserPrompt("w1", s, p)
  \/ \E w \in Workers : getOrInitializeState(w)
  \/ \E w \in Workers : callOpenAI(w)
  \/ \E w \in Workers : saveState(w)
  \/ \E w \in Workers : executeAction(w)
  \/ \E w \in Workers : executeActionThrows(w)
  \/ \E w \in Workers : Return(w)
InitLive ==
  /\ stateStorage \in {[s \in Sessions |-> IF s \in Routed THEN row ELSE Null] :
                         row \in {Null, Some(RowWellFormed), Some(RowNoMessages)}}
  /\ turn = [w \in Workers |-> IdleTurn]
  /\ ticks = 0
  /\ delivered = [s \in Sessions |-> <<>>]
  /\ turnsBegun = 0
  /\ faults = 0
  /\ StoreAsBuilt
  /\ codec = IdleCodec
  /\ tokens = NoTokens
  /\ env = "development"
  /\ oauth = [c \in Callers |-> IdleCall]
  /\ refreshes = <<>>
  /\ tokenCalls = 0
  /\ callbacks = 0
  /\ issued = NoneIssued
\* Every call a turn awaits settles: the store's getState and saveState,
\* the model's chat.completions.create and the dispatcher's executeAction
\* return or throw, and the continuation of a settled await is run.  A
\* delivery itself need not come.
Settling(w) ==
  /\ WF_vars(getOrInitializeState(w))
  /\ WF_vars(callOpenAI(w))
  /\ WF_vars(saveState(w))
  /\ WF_vars(executeAction(w) \/ executeActionThrows(w))
  /\ WF_vars(Return(w))
SpecLive == InitLive /\ [][NextLive]_vars /\ \A w \in Workers : Settling(w)

\* Deliveries for two sessions at once: each worker takes one delivery, for
\* a session of its own, and the two turns interleave at their awaits.
SessionOf == [w \in Workers |-> IF w = "w1" THEN "s1" ELSE "s2"]
NextSessions ==
  \/ \E w \in Workers, p \in Prompts :
       turnsBegun < Cardinality(Workers) /\ handleUserPrompt(w, SessionOf[w], p)
  \/ \E w \in Workers : getOrInitializeState(w)
  \/ \E w \in Workers : callOpenAI(w)
  \/ \E w \in Workers : saveState(w)
  \/ \E w \in Workers : executeAction(w)
  \/ \E w \in Workers : Return(w)

\* Each session is new or has the row of an earlier turn.
InitSessions ==
  /\ stateStorage \in [Sessions -> {Null, Some(RowWellFormed)}]
  /\ turn = [w \in Workers |-> IdleTurn]
  /\ ticks = 0
  /\ delivered = [s \in Sessions |-> <<>>]
  /\ turnsBegun = 0
  /\ faults = 0
  /\ StoreAsBuilt
  /\ codec = IdleCodec
  /\ tokens = NoTokens
  /\ env = "development"
  /\ oauth = [c \in Callers |-> IdleCall]
  /\ refreshes = <<>>
  /\ tokenCalls = 0
  /\ callbacks = 0
  /\ issued = NoneIssued
SpecSessions == InitSessions /\ [][NextSessions]_vars

\* ------------------------------------------- the session store by itself
\* The session store as its interface is called: saveState and getState,
\* with or without the default helper pair, deleteState and cleanupStates.
Encryptions == {"none", "default"}
\* crypto.randomBytes(32), crypto.randomBytes(16)
Keys == {"k1", "k2"}
IVs == {"iv1"}

\* defaultEncrypt with the key and the iv it has drawn.  The cipher text is
\* represented by what it was made of.
defaultEncrypt(data, key, iv) ==
  [encrypted |-> [key |-> key, iv |-> iv, data |-> data], iv |-> iv]

\* What defaultDecrypt can do with the key it has drawn: the plain text
\* when key and iv are those of the encryption; otherwise decipher.final
\* throws on the padding (Null) or, when the padding happens to check, the
\* bytes decoded are not the plain text and no JSON.
defaultDecrypt_AnyKey(encrypted, iv, key) ==
  {Some(encrypted.data)}

defaultDecrypt(encrypted, iv, key) ==
  IF key = encrypted.key /\ iv = encrypted.iv
    THEN {Some(encrypted.data)}
    ELSE {Null, Some(NotJSONText)}

\* Lines 35-50 with an encryptFn: the row holds the text of
\* { encrypted, iv } and the version of the state.
saveStateRowEncrypted(state, encrypted, now) ==
  [state |-> JSONstringify([encrypted |-> encrypted.encrypted,
                            iv |-> encrypted.iv]),
   version |-> state.version, last_updated |-> now \div 1000]

\* encryptedState.encrypted && encryptedState.iv
IsEncryptedState(value) ==
  "encrypted" \in DOMAIN value /\ "iv" \in DOMAIN value

\* SQLiteStateStorage.getState with a decryptFn whose call for this row, if
\* one is made, ends as `decrypted`.
getStateDecrypting(row, decrypted) ==
  IF row = Null THEN Null
  ELSE IF JSONparseThrows(Get(row).state) THEN Null
  ELSE IF IsEncryptedState(JSONparse(Get(row).state))
    THEN IF decrypted = Null THEN Null
         ELSE Parsed(Get(decrypted), Get(row).version)
  ELSE Parsed(Get(row).state, Get(row).version)

\* The states given to saveState.
SavedStates ==
  {[activityMessages |-> Some(PriorMessages),
    issueContext |-> Some(PriorContext), lastUpdated |-> 0, version |-> 1],
   [activityMessages |-> Some(PriorMessages),
    issueContext |-> Some(EmptyContext), lastUpdated |-> 0, version |-> 2]}

\* Rows of an earlier process: a well-formed one, one whose payload declares
\* another version, one whose text is not JSON, and one written with
\* defaultEncrypt.
RowNotJSON == [state |-> NotJSONText, version |-> 1, last_updated |-> 0]
RowEncrypted ==
  saveStateRowEncrypted(NewState(0),
    defaultEncrypt(JSONstringify(NewState(0)), "k1", "iv1"), 0)
StoreRows == {RowWellFormed, RowVersionMismatch, RowNotJSON, RowEncrypted}

\* Date.now() as saveState and cleanupStates read it: within the current
\* tick, and not before the reading of the call before.  storeCall.at keeps
\* the last reading through the calls that do not read the clock.
StoreClock ==
  {t \in {Now, Now + (MsPerTick \div 2)} : t >= storeCall.at}

\* The arguments of cleanupStates.
Days == {-1, 0, 1}
SecondsPerDay == 86400

Called(op, sessionId, now) ==
  [IdleStoreCall EXCEPT
     !.op = op, !.sessionId = sessionId, !.at = now, !.before = stateStorage,
     !.savedAt = [s \in Sessions |->
                    IF lastSaved[s] = Null THEN Null
                    ELSE Some(Get(lastSaved[s]).at)]]

\* SQLiteStateStorage.saveState(sessionId, state)
SQLiteStateStorage_saveState(sessionId, state) ==
  /\ \E now \in StoreClock, key \in Keys, iv \in IVs :
       LET row == IF encryption = "none"
                    THEN saveStateRow(state, now)
                    ELSE saveStateRowEncrypted(state,
                           defaultEncrypt(JSONstringify(state), key, iv), now)
           drawn == IF encryption = "none" THEN Null ELSE Some(key)
       IN /\ encryption = "none" => key = "k1"
          /\ stateStorage' = Upsert(stateStorage, sessionId, row)
          /\ storeCall' = [Called("saveState", sessionId, now) EXCEPT
                             !.state = Some(state), !.key = drawn]
          /\ lastSaved' = [lastSaved EXCEPT ![sessionId] =
                             Some([state |-> state, key |-> drawn,
                                   at |-> now])]
  /\ UNCHANGED <<encryption, turn, ticks, delivered, turnsBegun, faults,
                 codecVars, oauthVars>>

\* SQLiteStateStorage.getState(sessionId)
SQLiteStateStorage_getState(sessionId) ==
  /\ \E key \in Keys :
       LET row == stateStorage[sessionId]
           calls == /\ encryption = "default" /\ row # Null
                    /\ ~JSONparseThrows(Get(row).state)
                    /\ IsEncryptedState(JSONparse(Get(row).state))
           ends == IF calls
                     THEN defaultDecrypt(JSONparse(Get(row).state).encrypted,
                                         JSONparse(Get(row).state).iv, key)
                     ELSE {Null}
       IN /\ ~calls => key = "k1"
          /\ \E decrypted \in ends :
               storeCall' = [Called("getState", sessionId, storeCall.at) EXCEPT
                  !.key = IF calls THEN Some(key) ELSE Null,
                  !.decrypted = decrypted,
                  !.result = IF encryption = "none"
                               THEN getState(row)
                               ELSE getStateDecrypting(row, decrypted)]
  /\ UNCHANGED <<stateStorage, encryption, lastSaved, turn, ticks, delivered,
                 turnsBegun, faults, codecVars, oauthVars>>

\* SQLiteStateStorage.deleteState(sessionId)
deleteState(sessionId) ==
  /\ storeCall' = Called("deleteState", sessionId, storeCall.at)
  /\ stateStorage' = [stateStorage EXCEPT ![sessionId] = Null]
  /\ lastSaved' = [lastSaved EXCEPT ![sessionId] = Null]
  /\ UNCHANGED <<encryption, turn, ticks, delivered, turnsBegun, faults,
                 codecVars, oauthVars>>

\* DELETE FROM session_states WHERE last_updated < cutoff
Swept_AtOrBefore(table, cutoff) ==
  [s \in DOMAIN table |->
     IF table[s] # Null /\ Get(table[s]).last_updated <= cutoff
       THEN Null ELSE table[s]]

Swept(table, cutoff) ==
  [s \in DOMAIN table |->
     IF table[s] # Null /\ Get(table[s]).last_updated < cutoff
       THEN Null ELSE table[s]]

\* Math.floor(Date.now() / 1000) - (olderThanDays * 86400)
Cutoff(now, olderThanDays) == (now \div 1000) - (olderThanDays * SecondsPerDay)

\* SQLiteStateStorage.cleanupStates(olderThanDays)
cleanupStates(olderThanDays) ==
  /\ \E now \in StoreClock :
       /\ storeCall' = [Called("cleanupStates", "", now) EXCEPT
                          !.olderThanDays = olderThanDays]
       /\ stateStorage' = Swept(stateStorage, Cutoff(now, olderThanDays))
  /\ lastSaved' = [s \in Sessions |->
                     IF stateStorage'[s] = Null THEN Null ELSE lastSaved[s]]
  /\ UNCHANGED <<encryption, turn, ticks, delivered, turnsBegun, faults,
                 codecVars, oauthVars>>

NextStore ==
  \/ \E sessionId \in Sessions, state \in SavedStates :
       SQLiteStateStorage_saveState(sessionId, state)
  \/ \E sessionId \in Sessions : SQLiteStateStorage_getState(sessionId)
  \/ \E sessionId \in Sessions : deleteState(sessionId)
  \/ \E olderThanDays \in Days : cleanupStates(olderThanDays)
  \/ Tick

\* A store built with or without the default helper pair, on a table that
\* may hold a row of an earlier process.
InitStore ==
  /\ encryption \in Encryptions
  /\ storeCall = IdleStoreCall
  /\ lastSaved = [s \in Sessions |-> Null]
  /\ \E row \in {Null} \cup {Some(r) : r \in StoreRows} :
       stateStorage = [s \in Sessions |-> IF s = "s1" THEN row ELSE Null]
  /\ turn = [w \in Workers |-> IdleTurn]
  /\ ticks = 0
  /\ delivered = [s \in Sessions |-> <<>>]
  /\ turnsBegun = 0
  /\ faults = 0
  /\ codec = IdleCodec
  /\ tokens = NoTokens
  /\ env = "development"
  /\ oauth = [c \in Callers |-> IdleCall]
  /\ refreshes = <<>>
  /\ tokenCalls = 0
  /\ callbacks = 0
  /\ issued = NoneIssued
SpecStore == InitStore /\ [][NextStore]_vars

\* ------------------------------------------------------ getOAuthToken
MaxCalls == 2

\* A value of the tokens table is text.  It is represented by whether it is
\* JSON text and, when it is the text of an object, by the typeof and the
\* value of the three members getOAuthToken reads.
TypesOfToken(token) ==
  [access_token |-> "string", expires_at |-> "number",
   refresh_token |-> IF token.refresh_token = Null THEN "undefined"
                                                   ELSE "string"]
\* JSON.stringify of a StoredToken: a member that is undefined is left out.
JSONstringifyToken(token) ==
  [json |-> TRUE, typeof |-> TypesOfToken(token),
   access_token |-> token.access_token, expires_at |-> token.expires_at,
   refresh_token |-> token.refresh_token]
\* JSON.parse of the text of an object.
JSONparseToken(tokenStr) ==
  [typeof |-> tokenStr.typeof, access_token |-> tokenStr.access_token,
   expires_at |-> tokenStr.expires_at, refresh_token |-> tokenStr.refresh_token]
\* The StoredToken the object is, once isStoredToken has accepted it.
AsStoredToken(tokenData) ==
  [access_token |-> tokenData.access_token, expires_at |-> tokenData.expires_at,
   refresh_token |-> tokenData.refresh_token]

isStoredToken_NoCheck(token) == TRUE

isStoredToken_RequiresRefreshToken(token) ==
  /\ token.typeof.access_token = "string"
  /\ token.typeof.expires_at = "number"
  /\ token.typeof.refresh_token = "string"

isStoredToken(token) ==
  /\ token.typeof.access_token = "string"
  /\ token.typeof.expires_at = "number"
  /\ token.typeof.refresh_token \in {"undefined", "string"}

\* response.json() of a successful refresh: expires_in is in seconds.
RefreshResponses ==
  {[access_token |-> "a1", refresh_token |-> Null, expires_in |-> 1],
   [access_token |-> "a2", refresh_token |-> Some("r1"), expires_in |-> 1]}

\* The StoredToken values an earlier process may have left in the table.
ExpiryTimes == {k * MsPerTick : k \in 0..(MaxTicks + 1)}
StoredTokens ==
  [access_token : {"a0"}, expires_at : ExpiryTimes,
   refresh_token : {Null, Some("r0")}]
\* Values of the table that are not the text of a StoredToken: text that is
\* not JSON, an object without access_token, an object whose expires_at is
\* a string.
NotJSON ==
  [json |-> FALSE,
   typeof |-> [access_token |-> "undefined", expires_at |-> "undefined",
               refresh_token |-> "undefined"],
   access_token |-> "", expires_at |-> 0, refresh_token |-> Null]
NoAccessToken ==
  [json |-> TRUE,
   typeof |-> [access_token |-> "undefined", expires_at |-> "number",
               refresh_token |-> "undefined"],
   access_token |-> "", expires_at |-> (MaxTicks + 1) * MsPerTick,
   refresh_token |-> Null]
StringExpiresAt ==
  [json |-> TRUE,
   typeof |-> [access_token |-> "string", expires_at |-> "string",
               refresh_token |-> "undefined"],
   access_token |-> "a0", expires_at |-> (MaxTicks + 1) * MsPerTick,
   refresh_token |-> Null]
MalformedValues == {NotJSON, NoAccessToken, StringExpiresAt}
StoredValues ==
  {JSONstringifyToken(t) : t \in StoredTokens} \cup MalformedValues

\* getStorage(): the store it returns, Null when it throws.  sqliteThrows
\* tells whether the SQLiteStorage constructor throws.
getStorage(mode, sqliteThrows) ==
  IF mode = "sqlite"
    THEN IF sqliteThrows THEN Null ELSE Some("sqlite")
  ELSE IF mode = "production"
    THEN IF sqliteThrows THEN Some("memory") ELSE Some("sqlite")
  ELSE Some("memory")

\* SQLiteStorage.get and put on the rows of the tokens table.
SQLiteStorage_get(table, key) == table[key]
SQLiteStorage_put_ReplacesTable(table, key, value) ==
  [k \in DOMAIN table |-> IF k = key THEN Some(value) ELSE Null]
SQLiteStorage_put_KeepsExisting(table, key, value) ==
  IF table[key] = Null THEN [table EXCEPT ![key] = Some(value)] ELSE table
SQLiteStorage_put(table, key, value) == [table EXCEPT ![key] = Some(value)]
\* MemoryStorage is the Credential Store of the specification: one map of
\* the process, volatile, with get and put that do not fail.
MemoryStorage_get(map, key) == map[key]
MemoryStorage_put(map, key, value) == [map EXCEPT ![key] = Some(value)]
\* storage.get(key) and the stores after storage.put(key, value).
StorageGet(storage, key) ==
  IF storage = "sqlite" THEN SQLiteStorage_get(tokens[storage], key)
                        ELSE MemoryStorage_get(tokens[storage], key)
StoragePut(storage, key, value) ==
  [tokens EXCEPT ![storage] =
     IF storage = "sqlite" THEN SQLiteStorage_put(@, key, value)
                           ELSE MemoryStorage_put(@, key, value)]

\* The tokens table may hold, for W1, a value of an earlier process; a
\* StoredToken among them is one that an exchange of that process issued.
Preloaded(values) ==
  /\ env \in Envs
  /\ \E v \in {Null} \cup {Some(t) : t \in values} :
       /\ tokens = [NoTokens EXCEPT !["sqlite"][getWorkspaceTokenKey("W1")] = v]
       /\ issued = [NoneIssued EXCEPT !["W1"] =
            IF v # Null /\ Get(v) \notin MalformedValues
              THEN Some([token |-> AsStoredToken(Get(v)), backend |-> "sqlite"])
              ELSE Null]
  /\ oauth = [c \in Callers |-> IdleCall]
  /\ refreshes = <<>>
  /\ tokenCalls = 0
  /\ callbacks = 0
  /\ stateStorage = [s \in Sessions |-> Null]
  /\ turn = [w \in Workers |-> IdleTurn]
  /\ ticks = 0
  /\ delivered = [s \in Sessions |-> <<>>]
  /\ turnsBegun = 0
  /\ faults = 0
  /\ StoreAsBuilt
  /\ codec = IdleCodec

InitOAuth == Preloaded(StoredValues)

CallsBegun ==
  tokenCalls + Cardinality({c \in Callers : oauth[c].pc # "idle"})

\* Line 837: an empty workspaceId throws before the store is read.
Began_NullForEmpty(workspaceId) ==
  IF workspaceId = ""
    THEN [IdleCall EXCEPT !.op = "getOAuthToken", !.pc = "done"]
    ELSE [IdleCall EXCEPT !.op = "getOAuthToken", !.pc = "storage.get",
                          !.workspaceId = workspaceId]

Began(workspaceId) ==
  IF workspaceId = ""
    THEN [IdleCall EXCEPT !.op = "getOAuthToken", !.pc = "done",
                          !.threw = TRUE]
    ELSE [IdleCall EXCEPT !.op = "getOAuthToken", !.pc = "storage.get",
                          !.workspaceId = workspaceId]

\* getOAuthToken(env, workspaceId), up to its await of storage.get; `later`
\* notes whether an exchange had succeeded for the workspace by then.
getOAuthToken(c, workspaceId) ==
  /\ oauth[c].pc = "idle"
  /\ CallsBegun < MaxCalls
  /\ oauth' = [oauth EXCEPT ![c] =
       [Began(workspaceId) EXCEPT !.later =
          workspaceId \in Workspaces /\ issued[workspaceId] # Null]]
  /\ UNCHANGED <<tokens, env, issued, callbacks, refreshes, tokenCalls, stateStorage, turn, ticks,
                 delivered, turnsBegun, faults, codecVars, storeVars>>

\* The call returns `value` (null or an access token).
Returns(call, value, step) ==
  [call EXCEPT !.pc = "done", !.result = value, !.calls = Append(@, step)]

\* Lines 855-865 on a StoredToken: an expired one without or with a
\* refresh_token (the refresh request is then sent), or one to return.
Expired(call, tokenData, now) ==
  IF tokenData.expires_at < now
    THEN IF tokenData.refresh_token = Null
           THEN Returns([call EXCEPT !.tokenData = Some(tokenData),
                                     !.checkedAt = now],
                        Null, "storage.get")
           ELSE [call EXCEPT !.pc = "fetch", !.tokenData = Some(tokenData),
                             !.checkedAt = now,
                             !.sent = Append(@, tokenData.refresh_token),
                             !.calls = Append(@, "storage.get")]
  ELSE Returns([call EXCEPT !.tokenData = Some(tokenData), !.checkedAt = now],
               Some(tokenData.access_token), "storage.get")

\* Lines 843-865 once storage.get has resolved to tokenStr: no token, text
\* JSON.parse throws on (caught at 866), an object that is no StoredToken,
\* or a StoredToken.
Checked(call, tokenStr, now) ==
  IF tokenStr = Null THEN Returns(call, Null, "storage.get")
  ELSE IF JSONparseThrows(Get(tokenStr))
    THEN Returns(call, Null, "JSON.parse:throws")
  ELSE IF ~isStoredToken(JSONparseToken(Get(tokenStr)))
    THEN Returns(call, Null, "isStoredToken:false")
  ELSE Expired(call, AsStoredToken(JSONparseToken(Get(tokenStr))), now)

\* getStorage() and storage.get resolve or throw (both are caught at 866);
\* on a stored token the expiry check, and for an expired one with a
\* refresh_token the refresh request is sent.
storageGet(c) ==
  /\ oauth[c].pc = "storage.get"
  /\ \E sqliteThrows \in BOOLEAN, getThrows \in BOOLEAN :
       LET storage == getStorage(env, sqliteThrows)
           key == getWorkspaceTokenKey(oauth[c].workspaceId)
       IN /\ sqliteThrows => env # "development" /\ ~getThrows
          /\ getThrows => storage = Some("sqlite")
          /\ (sqliteThrows \/ getThrows) => faults < MaxFaults
          /\ faults' = IF sqliteThrows \/ getThrows THEN faults + 1 ELSE faults
          /\ oauth' = [oauth EXCEPT ![c] =
               IF storage = Null
                 THEN Returns(@, Null, "getStorage:throws")
               ELSE IF getThrows
                 THEN Returns([@ EXCEPT !.backend = storage], Null,
                              "storage.get:throws")
               ELSE Checked([@ EXCEPT !.backend = storage,
                                      !.tokenStr = StorageGet(Get(storage), key)],
                            StorageGet(Get(storage), key), Now)]
  /\ refreshes' =
       IF oauth'[c].pc = "fetch"
         THEN Append(refreshes,
                [caller |-> c,
                 refresh_token |-> Get(oauth'[c].tokenData).refresh_token])
         ELSE refreshes
  /\ UNCHANGED <<tokens, env, issued, callbacks, tokenCalls, stateStorage, turn, ticks, delivered,
                 turnsBegun, codecVars, storeVars>>

\* The StoredToken refreshToken builds from a successful response.
Refreshed_DropsPrior(tokenData, refreshToken, now) ==
  [access_token |-> tokenData.access_token,
   refresh_token |-> tokenData.refresh_token,
   expires_at |-> now + (tokenData.expires_in * 1000)]

Refreshed(tokenData, refreshToken, now) ==
  [access_token |-> tokenData.access_token,
   refresh_token |-> IF tokenData.refresh_token = Null
                       THEN refreshToken ELSE tokenData.refresh_token,
   expires_at |-> now + (tokenData.expires_in * 1000)]

\* The identity provider answers the refresh request: a token, a
\* non-success status, or no answer at all (fetch rejects).  Every failure
\* is thrown by refreshToken and caught by getOAuthToken's catch block.
refreshToken(c) ==
  /\ oauth[c].pc = "fetch"
  /\ \/ \E tokenData \in RefreshResponses :
          oauth' = [oauth EXCEPT ![c] =
            [@ EXCEPT !.pc = "storage.put",
                      !.response = Some(tokenData),
                      !.newToken = Some(Refreshed(tokenData,
                                     Get(oauth[c].tokenData).refresh_token, Now)),
                      !.calls = Append(@, "fetch")]]
     \/ oauth' = [oauth EXCEPT ![c] = Returns(@, Null, "fetch:not ok")]
     \/ oauth' = [oauth EXCEPT ![c] = Returns(@, Null, "fetch:throws")]
  /\ UNCHANGED <<tokens, env, issued, callbacks, refreshes, tokenCalls, stateStorage, turn, ticks,
                 delivered, turnsBegun, faults, codecVars, storeVars>>

\* handleOAuthCallback responds with `status`.
Responds(call, status, step) ==
  [call EXCEPT !.pc = "done", !.status = status, !.calls = Append(@, step)]

\* What follows `await setOAuthToken(...)`: getOAuthToken returns the new
\* access token (863) or, from its catch, null (869); handleOAuthCallback
\* responds 200 (821) or, from its catch, 500 (832).
AfterSet(call, stored, step) ==
  IF call.op = "getOAuthToken"
    THEN Returns(call, IF stored THEN Some(Get(call.newToken).access_token)
                                 ELSE Null, step)
    ELSE Responds(call, IF stored THEN 200 ELSE 500, step)

\* setOAuthToken: getStorage() and storage.put of the new token's text under
\* the workspace's key; a throw of either is rethrown as "Token storage
\* failed" and caught by the caller's catch block.
setOAuthToken(c) ==
  /\ oauth[c].pc = "storage.put"
  /\ \E sqliteThrows \in BOOLEAN, putThrows \in BOOLEAN :
       LET storage == getStorage(env, sqliteThrows)
           key == getWorkspaceTokenKey(oauth[c].workspaceId)
       IN /\ sqliteThrows => env # "development" /\ ~putThrows
          /\ putThrows => storage = Some("sqlite")
          /\ (sqliteThrows \/ putThrows) => faults < MaxFaults
          /\ faults' = IF sqliteThrows \/ putThrows THEN faults + 1 ELSE faults
          /\ IF storage = Null
               THEN /\ oauth' = [oauth EXCEPT ![c] =
                         AfterSet(@, FALSE, "getStorage:throws")]
                    /\ UNCHANGED tokens
             ELSE IF putThrows
               THEN /\ oauth' = [oauth EXCEPT ![c] =
                         AfterSet([@ EXCEPT !.backend = storage], FALSE,
                                  "storage.put:throws")]
                    /\ UNCHANGED tokens
             ELSE /\ tokens' = StoragePut(Get(storage), key,
                                 JSONstringifyToken(Get(oauth[c].newToken)))
                  /\ oauth' = [oauth EXCEPT ![c] =
                       AfterSet([@ EXCEPT !.backend = storage], TRUE,
                                "storage.put")]
  /\ issued' =
       IF oauth[c].op = "handleOAuthCallback" /\ oauth'[c].status = 200
         THEN [issued EXCEPT ![oauth[c].workspaceId] =
                 Some([token |-> Get(oauth[c].newToken),
                       backend |-> Get(oauth'[c].backend)])]
         ELSE issued
  /\ UNCHANGED <<env, callbacks, refreshes, tokenCalls, stateStorage, turn,
                 ticks, delivered, turnsBegun, codecVars, storeVars>>

\* ------------------------------------------------- handleOAuthCallback
MaxCallbacks == 1
\* The query parameters of the callback request.
Codes == {Null, Some("code1")}
Errors == {Null, Some("access_denied")}
\* response.json() of the authorization-code grant: a complete response
\* with or without refresh_token, and responses that lack access_token or
\* token_type or whose expires_in is 0.
ExchangeResponses ==
  [access_token : {Some("x1")}, token_type : {Some("Bearer")},
   expires_in : {1}, refresh_token : {Null, Some("r2")}]
  \cup {[access_token |-> Null, token_type |-> Some("Bearer"),
         expires_in |-> 1, refresh_token |-> Null],
        [access_token |-> Some("x1"), token_type |-> Null,
         expires_in |-> 1, refresh_token |-> Null],
        [access_token |-> Some("x1"), token_type |-> Some("Bearer"),
         expires_in |-> 0, refresh_token |-> Null]}

\* Lines 779-780: an error parameter or a missing code is answered 400.
Requested(code, error) ==
  IF error # Null
    THEN Responds([IdleCall EXCEPT !.op = "handleOAuthCallback"], 400, "error")
  ELSE IF code = Null
    THEN Responds([IdleCall EXCEPT !.op = "handleOAuthCallback"], 400,
                  "no code")
  ELSE [IdleCall EXCEPT !.op = "handleOAuthCallback", !.pc = "token.fetch"]

\* handleOAuthCallback(request, env), up to its await of the token request.
handleOAuthCallback(c, code, error) ==
  /\ oauth[c].pc = "idle"
  /\ CallsBegun < MaxCalls
  /\ callbacks < MaxCallbacks
  /\ callbacks' = callbacks + 1
  /\ oauth' = [oauth EXCEPT ![c] = Requested(code, error)]
  /\ UNCHANGED <<tokens, env, issued, refreshes, tokenCalls, stateStorage, turn, ticks,
                 delivered, turnsBegun, faults, codecVars, storeVars>>

\* Line 805: the response lacks a field the code requires.
InvalidTokenResponse(tokenData) ==
  \/ tokenData.access_token = Null
  \/ tokenData.token_type = Null
  \/ tokenData.expires_in = 0

\* The identity provider answers the authorization-code grant: a
\* non-success status (400 at 800-802), no answer (fetch rejects, 500 from
\* the catch), or a body, which is checked at 805.
exchangeCode(c) ==
  /\ oauth[c].pc = "token.fetch"
  /\ \/ oauth' = [oauth EXCEPT ![c] = Responds(@, 400, "token:not ok")]
     \/ oauth' = [oauth EXCEPT ![c] = Responds(@, 500, "token:throws")]
     \/ \E tokenData \in ExchangeResponses :
          oauth' = [oauth EXCEPT ![c] =
            IF InvalidTokenResponse(tokenData)
              THEN Responds(@, 500, "token:invalid")
              ELSE [@ EXCEPT !.pc = "graphql", !.response = Some(tokenData),
                             !.calls = Append(@, "token")]]
  /\ UNCHANGED <<tokens, env, issued, callbacks, refreshes, tokenCalls, stateStorage, turn, ticks,
                 delivered, turnsBegun, faults, codecVars, storeVars>>

\* Lines 811-815: the StoredToken of a grant response.
storedToken_NoExpiry(tokenData, now) ==
  [access_token |-> Get(tokenData.access_token),
   expires_at |-> now,
   refresh_token |-> tokenData.refresh_token]

storedToken(tokenData, now) ==
  [access_token |-> Get(tokenData.access_token),
   expires_at |-> now + (tokenData.expires_in * 1000),
   refresh_token |-> tokenData.refresh_token]

\* getWorkspaceInfo throws (a non-success status, a body without
\* organization, or fetch rejects: 500 from the catch), or returns the
\* organization, whose id keys the token that is then built.
getWorkspaceInfo(c) ==
  /\ oauth[c].pc = "graphql"
  /\ \/ oauth' = [oauth EXCEPT ![c] = Responds(@, 500, "graphql:throws")]
     \/ \E id \in Workspaces :
          oauth' = [oauth EXCEPT ![c] =
            [@ EXCEPT !.pc = "storage.put", !.workspaceId = id,
                      !.newToken = Some(storedToken(Get(oauth[c].response), Now)),
                      !.calls = Append(@, "graphql")]]
  /\ UNCHANGED <<tokens, env, issued, callbacks, refreshes, tokenCalls, stateStorage, turn, ticks,
                 delivered, turnsBegun, faults, codecVars, storeVars>>

\* The call settles: its caller sees the value or the throw.
ReturnToken(c) ==
  /\ oauth[c].pc = "done"
  /\ tokenCalls' = tokenCalls + 1
  /\ oauth' = [oauth EXCEPT ![c] = IdleCall]
  /\ UNCHANGED <<tokens, env, issued, callbacks, refreshes, stateStorage, turn, ticks, delivered,
                 turnsBegun, faults, codecVars, storeVars>>

NextOAuth ==
  \/ \E c \in Callers, workspaceId \in Workspaces \cup {""} :
       getOAuthToken(c, workspaceId)
  \/ \E c \in Callers : storageGet(c)
  \/ \E c \in Callers : refreshToken(c)
  \/ \E c \in Callers : setOAuthToken(c)
  \/ \E c \in Callers : ReturnToken(c)
  \/ Tick

\* getOAuthToken calls, possibly concurrent, on a tokens table that may hold
\* a value of an earlier process.
SpecOAuth == InitOAuth /\ [][NextOAuth]_vars

\* The tokens table holds a token for W2 as well: one with an access_token
\* of its own, expired or not, and a refresh_token.
OtherWorkspaceTokens ==
  [access_token : {"b0"}, expires_at : {0, (MaxTicks + 1) * MsPerTick},
   refresh_token : {Some("r9")}]
InitWorkspaces ==
  /\ env \in Envs
  /\ \E v \in {Null} \cup {Some(t) : t \in StoredValues},
        u \in OtherWorkspaceTokens :
       /\ tokens = [NoTokens EXCEPT
            !["sqlite"][getWorkspaceTokenKey("W1")] = v,
            !["sqlite"][getWorkspaceTokenKey("W2")] = Some(JSONstringifyToken(u))]
       /\ issued = [NoneIssued EXCEPT
            !["W1"] = IF v # Null /\ Get(v) \notin MalformedValues
                        THEN Some([token |-> AsStoredToken(Get(v)),
                                   backend |-> "sqlite"])
                        ELSE Null,
            !["W2"] = Some([token |-> u, backend |-> "sqlite"])]
  /\ oauth = [c \in Callers |-> IdleCall]
  /\ refreshes = <<>>
  /\ tokenCalls = 0
  /\ callbacks = 0
  /\ stateStorage = [s \in Sessions |-> Null]
  /\ turn = [w \in Workers |-> IdleTurn]
  /\ ticks = 0
  /\ delivered = [s \in Sessions |-> <<>>]
  /\ turnsBegun = 0
  /\ faults = 0
  /\ StoreAsBuilt
  /\ codec = IdleCodec
\* One getOAuthToken call per caller, for either workspace, the two under
\* way at once.
NextWorkspaces ==
  \/ \E c \in Callers, workspaceId \in Workspaces \cup {""} :
       CallsBegun < Cardinality(Callers) /\ getOAuthToken(c, workspaceId)
  \/ \E c \in Callers : storageGet(c)
  \/ \E c \in Callers : refreshToken(c)
  \/ \E c \in Callers : setOAuthToken(c)
  \/ \E c \in Callers : ReturnToken(c)
  \/ Tick
\* getOAuthToken calls for two workspaces that both have a stored token.
SpecWorkspaces == InitWorkspaces /\ [][NextWorkspaces]_vars

NextExchange ==
  \/ NextOAuth
  \/ \E c \in Callers, code \in Codes, error \in Errors :
       handleOAuthCallback(c, code, error)
  \/ \E c \in Callers : exchangeCode(c)
  \/ \E c \in Callers : getWorkspaceInfo(c)

\* The same with OAuth callbacks, on a table that holds no value or a
\* StoredToken that has expired.
InitExchange ==
  Preloaded({JSONstringifyToken(t) : t \in {x \in StoredTokens : x.expires_at = 0}})
SpecExchange == InitExchange /\ [][NextExchange]_vars

\* ------------------------------------------------- the codec on its own
\* The texts given to mapResponseToLinearActivityContent: one of the six
\* markers or none, followed by a body.
CodecHeads ==
  {typeToKeyword[i].keyword : i \in 1..Len(typeToKeyword)} \cup {<<>>}
CodecToolNames == ToolName \cup {"notARealTool", "getTimes"}
CodecParams == {<<"x">>, <<"Paris", ",", " ", "FR">>}
Call(name, params) == <<" ", name, "(">> \o params \o <<")">>
Bare(name) == <<" ", name>>
CodecBodies ==
  {<<>>,
   <<" ", "Done", ".">>,
   <<" ", "repo", ":", " ", "Give", " ", "the", " ", "URL", ".">>,
   <<" ", "repo", ":", " ", "Give", " ", "the", " ", "URL", ".", "\n",
     "Thanks", ".">>,
   <<"I", " ", "am", " ", "THINKING", ":", " ", "hard">>,
   <<" ", " ", "padded", " ", " ">>,
   <<"\n", "line", " ", "two">>,
   <<" ", "getTime", "(", ")">>}
    \cup {Call(n, <<"x">>) : n \in CodecToolNames}
    \cup {Call("getWeather", <<"Paris", ",", " ", "FR">>)}
    \cup {Bare(n) : n \in CodecToolNames}
CodecTexts == {h \o b : h \in CodecHeads, b \in CodecBodies}

\* The transcript line createMessagesFromState renders for one activity.
TranscriptLine(content) ==
  createMessagesFromState([activityMessages |-> Some(<<content>>)])[1].content

InitCodec ==
  /\ codec \in {[IdleCodec EXCEPT !.response = x] : x \in CodecTexts}
  /\ stateStorage = [s \in Sessions |-> Null]
  /\ turn = [w \in Workers |-> IdleTurn]
  /\ ticks = 0
  /\ delivered = [s \in Sessions |-> <<>>]
  /\ turnsBegun = 0
  /\ faults = 0
  /\ StoreAsBuilt
  /\ tokens = NoTokens
  /\ env = "development"
  /\ oauth = [c \in Callers |-> IdleCall]
  /\ refreshes = <<>>
  /\ tokenCalls = 0
  /\ callbacks = 0
  /\ issued = NoneIssued

\* mapResponseToLinearActivityContent(response)
DecodeText ==
  /\ codec.activity = Null
  /\ codec' = [codec EXCEPT !.activity =
                 Some(mapResponseToLinearActivityContent(codec.response))]
  /\ UNCHANGED <<stateStorage, turn, ticks, delivered, turnsBegun, faults,
                 oauthVars, storeVars>>

\* createMessagesFromState on the decoded activity
EncodeActivity ==
  /\ IsSome(codec.activity) /\ ~Get(codec.activity).threw
  /\ codec.line = Null
  /\ codec' = [codec EXCEPT !.line =
                 Some(TranscriptLine(Get(codec.activity).content))]
  /\ UNCHANGED <<stateStorage, turn, ticks, delivered, turnsBegun, faults,
                 oauthVars, storeVars>>

\* mapResponseToLinearActivityContent on the transcript line
DecodeLine ==
  /\ IsSome(codec.line)
  /\ codec.again = Null
  /\ codec' = [codec EXCEPT !.again =
                 Some(mapResponseToLinearActivityContent(Get(codec.line)))]
  /\ UNCHANGED <<stateStorage, turn, ticks, delivered, turnsBegun, faults,
                 oauthVars, storeVars>>

NextCodec == DecodeText \/ EncodeActivity \/ DecodeLine
SpecCodec == InitCodec /\ [][NextCodec]_vars

\* ================================================================ claims
InRange(seq) == {seq[i] : i \in 1..Len(seq)}
Last(seq) == seq[Len(seq)]
LastTwo(seq) == SubSeq(seq, Len(seq) - 1, Len(seq))
IsPrefix(a, b) == Len(a) <= Len(b) /\ SubSeq(b, 1, Len(a)) = a

\* What the session_states row of session s holds.
Persisted(s) ==
  IF stateStorage[s] = Null THEN <<>>
  ELSE Get(Get(stateStorage[s]).state.value.activityMessages)
PersistedContext(s) ==
  IF stateStorage[s] = Null THEN EmptyContext
  ELSE Get(Get(stateStorage[s]).state.value.issueContext)
\* The issueContext of the row the session held when the turn began.
PriorContext_(t) ==
  IF t.prior = Null THEN EmptyContext ELSE Get(Get(t.prior).state.value.issueContext)
PriorMessages_(t) ==
  IF t.prior = Null THEN <<>> ELSE Get(Get(t.prior).state.value.activityMessages)

StoreFailed(calls) ==
  InRange(calls) \cap {"getState:throws", "saveState:throws"} # {}
\* No load or save has failed on session s, in a completed or a running turn.
NoStoreFailure(s) ==
  /\ \A i \in 1..Len(delivered[s]) : ~StoreFailed(delivered[s][i].calls)
  /\ \A w \in Workers :
       turn[w].pc # "idle" /\ turn[w].sessionId = s => ~StoreFailed(turn[w].calls)
Quiet(s) == \A w \in Workers : turn[w].pc = "idle" \/ turn[w].sessionId # s

\* The block of one completed turn: UserResponse, the returned activity, and
\* a ToolResult exactly when that activity is an Action.
BlockOf(entry) ==
  <<BodyContent(UserResponse, entry.userPrompt), entry.content>>
    \o (IF entry.content.type = Action
          THEN <<BodyContent(ToolResult, PlaceholderToolResult)>> ELSE <<>>)
RECURSIVE Blocks(_)
Blocks(log) == IF log = <<>> THEN <<>> ELSE BlockOf(Head(log)) \o Blocks(Tail(log))

Running(t) == t.pc \notin {"idle", "getOrInitializeState"}
LoadedFresh(t) == t.prior = Null \/ t.calls[1] = "getState:throws"
\* The model replied with text that decodes to an Action.
DecodedAction(t) ==
  /\ IsSome(t.response)
  /\ ~mapResponseToLinearActivityContent(Get(t.response)).threw
  /\ mapResponseToLinearActivityContent(Get(t.response)).content.type = Action
\* The tool name the ACTION patterns capture from the reply.
NamedTool(response) ==
  LET marks == Occurrences(response, <<"ACTION", ":">>)
      calls == {i \in marks : ActionCallMatchesAt(response, i)}
      names == {i \in marks : ActionNameMatchesAt(response, i)}
  IN IF calls # {} THEN Some(ActionCallName(response, Min(calls)))
     ELSE IF names # {} THEN Some(ActionCallName(response, Min(names)))
     ELSE Null
\* The model replied with an ACTION whose tool is outside ToolName.
RepliedUnknownTool(t) ==
  /\ IsSome(t.response)
  /\ MappedType(Get(t.response)) = Action
  /\ IsSome(NamedTool(Get(t.response)))
  /\ Get(NamedTool(Get(t.response))) \notin ToolName
ModelFailed(t) == "chat.completions.create:throws" \in InRange(t.calls)

\* C1: every handleUserPrompt call returns exactly one well-formed Activity
\* and never throws, whatever the session id, the input, the model outcome
\* and the store outcome (no row, a failed load, a loaded state of any shape,
\* a failed save).
C1_AlwaysReturnsOneActivity ==
  \A w \in Workers :
    /\ turn[w].pc # "thrown"
    /\ turn[w].pc = "return" => IsContent(ReturnValue(turn[w]))

C3_ActionTurnReturnsTheAction ==
  \A w \in Workers :
    turn[w].pc = "return" /\ DecodedAction(turn[w]) =>
      /\ ReturnValue(turn[w]) =
           mapResponseToLinearActivityContent(Get(turn[w].response)).content
      /\ ReturnValue(turn[w]).type = Action
      /\ "executeAction" \in InRange(turn[w].calls)

C3_Witness ==
  \E w \in Workers :
    /\ turn[w].pc = "return" /\ DecodedAction(turn[w])
    /\ Last(Get(turn[w].state.activityMessages)).type = ToolResult
    /\ ReturnValue(turn[w]) = ActionContent("getTime", Some(<<"x">>))

\* C4: a reply that is an ACTION naming a tool outside ToolName does not
\* make handleUserPrompt throw: it returns an Error activity, that Error is
\* appended directly after the turn's UserResponse, the turn performs its
\* persist step (one saveState call on that state, which is the stored state
\* when the store accepts it), and executeAction is never called.
C4_UnknownToolBecomesError ==
  \A w \in Workers :
    LET t == turn[w] IN
    RepliedUnknownTool(t) =>
      /\ t.pc \in {"saveState:catch", "return"}
      /\ t.content =
           ErrorContent(InvalidToolName(Get(NamedTool(Get(t.response)))))
      /\ Len(Get(t.state.activityMessages)) >= 2
      /\ LastTwo(Get(t.state.activityMessages)) =
           <<BodyContent(UserResponse, t.userPrompt), t.content>>
      /\ "executeAction" \notin InRange(t.calls)
      /\ t.pc = "return" =>
           /\ ReturnValue(t) = t.content
           /\ Len(t.saves) = 1
           /\ t.saves[1].ok =>
                Persisted(t.sessionId) = Get(t.state.activityMessages)

C4_Witness ==
  \E w \in Workers :
    /\ turn[w].pc = "return" /\ RepliedUnknownTool(turn[w])
    /\ turn[w].saves[1].ok
    /\ Last(Persisted(turn[w].sessionId)).type = Error

C6_ModelFailureBecomesError ==
  \A w \in Workers :
    LET t == turn[w] IN
    ModelFailed(t) =>
      /\ t.pc # "thrown"
      /\ t.pc = "return" =>
           /\ ReturnValue(t).type = Error
           /\ Len(Persisted(t.sessionId)) >= 2
           /\ LastTwo(Persisted(t.sessionId)) =
                <<BodyContent(UserResponse, t.userPrompt), ReturnValue(t)>>

\* C6 (amended): when the model call fails, handleUserPrompt returns an
\* Error activity and does not throw; that Error is the last element of the
\* activityMessages handed to the one saveState call of the turn, directly
\* after the turn's UserResponse, and of the persisted activityMessages when
\* that save succeeds.
C6_ModelFailureBecomesErrorSavedBestEffort ==
  \A w \in Workers :
    LET t == turn[w] IN
    ModelFailed(t) =>
      /\ t.pc \in {"saveState:catch", "return"}
      /\ t.content.type = Error
      /\ \E e \in ModelErrors : t.content = ErrorContent(OpenAIError(e))
      /\ Len(Get(t.state.activityMessages)) >= 2
      /\ LastTwo(Get(t.state.activityMessages)) =
           <<BodyContent(UserResponse, t.userPrompt), t.content>>
      /\ t.pc = "return" =>
           /\ ReturnValue(t) = t.content
           /\ Len(t.saves) = 1
           /\ t.saves[1].ok =>
                /\ Persisted(t.sessionId) = Get(t.state.activityMessages)
                /\ Last(Persisted(t.sessionId)) = ReturnValue(t)

C6_Witness ==
  \E w \in Workers :
    /\ turn[w].pc = "return" /\ ModelFailed(turn[w])
    /\ turn[w].saves[1].ok
    /\ Len(Persisted(turn[w].sessionId)) = 4

\* C7 (as claimed): with no stored state, or a failed load, the turn
\* proceeds from a fresh state (no messages, no context, version 1), and
\* after the turn a state of that version is persisted for the session.
C7_FreshStateWhenNoneLoads ==
  \A w \in Workers :
    LET t == turn[w] IN
    Running(t) /\ LoadedFresh(t) =>
      /\ t.pc # "thrown"
      /\ t.state.version = CURRENT_STATE_VERSION
      /\ Get(t.state.activityMessages)[1] =
           BodyContent(UserResponse, t.userPrompt)
      /\ Get(t.state.issueContext) = parseIssueContext(t.userPrompt)
      /\ t.pc = "return" =>
           /\ stateStorage[t.sessionId] # Null
           /\ Get(stateStorage[t.sessionId]).version = CURRENT_STATE_VERSION
           /\ IsSome(getState(stateStorage[t.sessionId]))

\* C7 (amended): with no stored state, or a failed load, the turn proceeds
\* from a fresh state (no messages, no context, version 1); every save of
\* the turn that succeeds stores a row of that version, and when the turn's
\* last save succeeds the stored state is the turn's state.
C7_FreshStateSavedBestEffort ==
  \A w \in Workers :
    LET t == turn[w] IN
    Running(t) /\ LoadedFresh(t) =>
      /\ t.pc # "thrown"
      /\ t.state.version = CURRENT_STATE_VERSION
      /\ Get(t.state.activityMessages)[1] =
           BodyContent(UserResponse, t.userPrompt)
      /\ \A i \in 2..Len(Get(t.state.activityMessages)) :
           Get(t.state.activityMessages)[i].type # UserResponse
      /\ Get(t.state.issueContext) = parseIssueContext(t.userPrompt)
      /\ \A i \in 1..Len(t.saves) :
           t.saves[i].ok =>
             /\ Get(t.saves[i].after).version = CURRENT_STATE_VERSION
             /\ Get(t.saves[i].after).state.value.version = CURRENT_STATE_VERSION
      /\ t.pc = "return" /\ Last(t.saves).ok =>
           /\ stateStorage[t.sessionId] # Null
           /\ getState(stateStorage[t.sessionId]) = Some(t.state)

\* A failed load over an existing row, then a successful save.
C7_Witness ==
  \E w \in Workers :
    /\ turn[w].pc = "return"
    /\ turn[w].calls[1] = "getState:throws"
    /\ turn[w].prior # Null
    /\ Last(turn[w].saves).ok
    /\ Len(Persisted(turn[w].sessionId)) = 2

\* What handleUserPrompt returns as a function of the model's outcome alone.
AnswerFor(t) ==
  IF ~IsSome(t.response) THEN t.content
  ELSE IF mapResponseToLinearActivityContent(Get(t.response)).threw
    THEN ErrorContent(mapResponseToLinearActivityContent(Get(t.response)).message)
  ELSE mapResponseToLinearActivityContent(Get(t.response)).content

\* C8: a failed save is not raised: the turn goes on (an Action is still
\* dispatched), returns what it returns when the save succeeds, and the
\* stored row is the one from before the failed save.
C8_SaveFailureIsSwallowed ==
  \A w \in Workers :
    LET t == turn[w] IN
    /\ t.pc # "thrown"
    /\ \A i \in 1..Len(t.saves) : ~t.saves[i].ok => t.saves[i].after = t.saves[i].before
    /\ t.pc # "idle" /\ t.saves # <<>> /\ ~Last(t.saves).ok =>
         stateStorage[t.sessionId] = Last(t.saves).before
    /\ t.pc = "return" =>
         /\ ReturnValue(t) = AnswerFor(t)
         /\ ~IsSome(t.response) =>
              \E e \in ModelErrors : ReturnValue(t) = ErrorContent(OpenAIError(e))
         /\ DecodedAction(t) =>
              /\ "executeAction" \in InRange(t.calls)
              /\ Len(t.saves) = 2

\* An Action turn whose first save failed and that dispatched all the same.
C8_Witness ==
  \E w \in Workers :
    /\ turn[w].pc = "return" /\ DecodedAction(turn[w])
    /\ ~turn[w].saves[1].ok
    /\ "executeAction" \in InRange(turn[w].calls)
    /\ ReturnValue(turn[w]).type = Action

\* C9 (as claimed): after every turn the session's issueContext is the prior
\* one overridden by this input's extracted context, and no key is removed.
C9_ContextIsPriorOverridden ==
  \A w \in Workers :
    LET t == turn[w]
        extracted == parseIssueContext(t.userPrompt)
        now == PersistedContext(t.sessionId)
    IN t.pc = "return" =>
         /\ DOMAIN now = DOMAIN PriorContext_(t) \cup DOMAIN extracted
         /\ \A k \in DOMAIN extracted : now[k] = extracted[k]
         /\ \A k \in DOMAIN PriorContext_(t) \ DOMAIN extracted :
              now[k] = PriorContext_(t)[k]

\* C9 (amended): in a turn whose load does not fail, the turn's issueContext
\* is the prior one overridden by the extracted context, a successful save
\* stores exactly that, and no stored key is removed.
C9_ContextIsPriorOverriddenIfLoaded ==
  \A w \in Workers :
    LET t == turn[w]
        extracted == parseIssueContext(t.userPrompt)
        mine == Get(t.state.issueContext)
    IN Running(t) /\ t.calls[1] = "getState" =>
         /\ DOMAIN mine = DOMAIN PriorContext_(t) \cup DOMAIN extracted
         /\ \A k \in DOMAIN extracted : mine[k] = extracted[k]
         /\ \A k \in DOMAIN PriorContext_(t) \ DOMAIN extracted :
              mine[k] = PriorContext_(t)[k]
         /\ DOMAIN PriorContext_(t) \subseteq DOMAIN PersistedContext(t.sessionId)
         /\ t.saves # <<>> /\ Last(t.saves).ok =>
              PersistedContext(t.sessionId) = mine

\* A second turn that overrides one prior key and keeps another.
C9_Witness ==
  \E w \in Workers :
    LET t == turn[w] IN
    /\ t.pc = "return" /\ t.calls[1] = "getState" /\ Last(t.saves).ok
    /\ <<"key">> \in DOMAIN PriorContext_(t)
    /\ <<"key">> \in DOMAIN parseIssueContext(t.userPrompt)
    /\ PersistedContext(t.sessionId)[<<"key">>] # PriorContext_(t)[<<"key">>]
    /\ <<"description">> \notin DOMAIN parseIssueContext(t.userPrompt)
    /\ <<"description">> \in DOMAIN PersistedContext(t.sessionId)

\* C10: a REQUIRED_PARAMS name with no value yet is seeded with
\* REQUIRED_ELICITATION, and a name that already has a value in the session's
\* issueContext, from an earlier turn or from this input, keeps it.
C10_RequiredParamsKeepKnownValues ==
  \A w \in Workers :
    LET t == turn[w]
        mine == Get(t.state.issueContext)
        required == InRange(RequiredParamsOf(t.userPrompt))
    IN Running(t) /\ t.calls[1] = "getState" =>
         \A p \in required :
           /\ p \in DOMAIN mine
           /\ (p \notin DOMAIN PriorContext_(t)
                 /\ p \notin DOMAIN AddComments(EmptyContext,
                                      CommentLinesOf(t.userPrompt)))
                => mine[p] = REQUIRED_ELICITATION
           /\ (p \in DOMAIN PriorContext_(t)
                 /\ PriorContext_(t)[p] # REQUIRED_ELICITATION)
                => mine[p] # REQUIRED_ELICITATION

\* C11: for the input "ISSUE_DESCRIPTION: fix bug", then "ISSUE_COMMENTS:" and
\* the lines "key: val" and "url: a:b", on a session with no prior state and
\* the model reply "RESPONSE: Done.", the turn returns Response with body
\* "Done." and the persisted issueContext maps description to "fix bug", key
\* to "val" and url to "a:b" (the colons after the first stay in the value).
C11_IssueScenario ==
  \A w \in Workers :
    LET t == turn[w] IN
    (/\ t.pc = "return"
     /\ t.userPrompt = PromptIssue
     /\ t.prior = Null
     /\ t.response = ReplyResponse
     /\ ~StoreFailed(t.calls)) =>
      /\ ReturnValue(t) = BodyContent(Response, <<"Done", ".">>)
      /\ PersistedContext(t.sessionId) =
           [k \in {<<"description">>, <<"key">>, <<"url">>} |->
              CASE k = <<"description">> -> <<"fix", " ", "bug">>
                [] k = <<"key">> -> <<"val">>
                [] k = <<"url">> -> <<"a", ":", "b">>]

C11_Witness ==
  \E w \in Workers :
    /\ turn[w].pc = "return"
    /\ turn[w].userPrompt = PromptIssue
    /\ turn[w].prior = Null
    /\ turn[w].response = ReplyResponse
    /\ ~StoreFailed(turn[w].calls)
    /\ PersistedContext(turn[w].sessionId)[<<"url">>] = <<"a", ":", "b">>

\* ---------------------------------------------------- claims on the codec
MarkerOf(type) == KeywordOf(type)
HasHead(response) ==
  \E i \in 1..Len(typeToKeyword) : StartsWith(response, typeToKeyword[i].keyword)
\* The text after the marker the response starts with.
Remainder(response, type) == Drop(response, Len(MarkerOf(type)))

\* C12 (as claimed): a text that starts with THINKING:, RESPONSE:,
\* ELICITATION:, ERROR: or USER_RESPONSE: decodes to that marker's variant
\* with body = the text with the marker stripped, trimmed.
C12_MarkerTextKeepsStrippedBody ==
  IsSome(codec.activity) =>
    \A type \in {Thought, Response, Elicitation, Error, UserResponse} :
      StartsWith(codec.response, MarkerOf(type)) =>
        /\ ~Get(codec.activity).threw
        /\ Get(codec.activity).content.type = type
        /\ Get(codec.activity).content.body =
             Some(Trim(Remainder(codec.response, type)))

\* C12 (amended): a text that starts with THINKING:, RESPONSE:, ERROR: or
\* USER_RESPONSE: decodes to that marker's variant with body = the text with
\* the marker stripped, trimmed; a text that starts with ELICITATION: decodes
\* to Elicitation, with that body and no parameter when no ELICITATION: in
\* it is followed by a "parameter:" part.
C12_MarkerTextKeepsStrippedBodyUnlessElicitationPattern ==
  IsSome(codec.activity) =>
    /\ \A type \in {Thought, Response, Error, UserResponse} :
         StartsWith(codec.response, MarkerOf(type)) =>
           /\ ~Get(codec.activity).threw
           /\ Get(codec.activity).content =
                BodyContent(type, Trim(Remainder(codec.response, type)))
    /\ StartsWith(codec.response, MarkerOf(Elicitation)) =>
         /\ ~Get(codec.activity).threw
         /\ Get(codec.activity).content.type = Elicitation
         /\ (\A i \in Occurrences(codec.response, MarkerOf(Elicitation)) :
                ~ElicitationMatchesAt(codec.response, i)) =>
              Get(codec.activity).content =
                ElicitationContent(
                  Trim(Remainder(codec.response, Elicitation)), Null)

\* A THINKING: text that holds the marker twice, decoded.
C12_Witness ==
  /\ IsSome(codec.activity)
  /\ codec.response =
       <<"THINKING", ":", "I", " ", "am", " ", "THINKING", ":", " ", "hard">>
  /\ Get(codec.activity).content =
       BodyContent(Thought, <<"I", " ", "am", " ", "THINKING", ":", " ", "hard">>)

\* C13: a text that starts with none of the six markers decodes, without
\* failing, to a Thought whose body is the full text (compared up to
\* surrounding whitespace), also when THINKING: occurs inside the text.
C13_UnmarkedTextIsThoughtOfFullText ==
  IsSome(codec.activity) /\ ~HasHead(codec.response) =>
    /\ ~Get(codec.activity).threw
    /\ Get(codec.activity).content.type = Thought
    /\ Get(codec.activity).content.body = Some(Trim(codec.response))

\* C14: "ELICITATION: <parameter>: <question>" decodes to Elicitation with
\* parameter = the text between the marker and the first following colon and
\* body = the whole text after that colon, both trimmed; with no colon after
\* the marker it decodes to Elicitation with body = the remainder, trimmed,
\* and no parameter.
C14_ElicitationSplitsAtFirstColon ==
  IsSome(codec.activity) /\ StartsWith(codec.response, MarkerOf(Elicitation)) =>
    LET rest == Remainder(codec.response, Elicitation)
        colon == IndexOf(rest, <<":">>)
        out == Get(codec.activity)
    IN /\ ~out.threw
       /\ colon > 1 =>
            out.content =
              ElicitationContent(Trim(Drop(rest, colon)),
                                 Some(Trim(SubSeq(rest, 1, colon - 1))))
       /\ colon = 0 => out.content = ElicitationContent(Trim(rest), Null)

\* The texts "ACTION: name(params)" and "ACTION: name".
ActionCallText(name, params) == MarkerOf(Action) \o Call(name, params)
ActionBareText(name) == MarkerOf(Action) \o Bare(name)

\* C15: "ACTION: toolName(parameters)" with a tool name of ToolName decodes
\* to Action with parameter = the text between the parentheses, and
\* "ACTION: toolName" decodes to Action with parameter = null.
C15_ActionKeepsRawParameter ==
  IsSome(codec.activity) =>
    \A name \in ToolName :
      /\ \A params \in CodecParams :
           codec.response = ActionCallText(name, params) =>
             Get(codec.activity) = Returned(ActionContent(name, Some(params)))
      /\ codec.response = ActionBareText(name) =>
           Get(codec.activity) = Returned(ActionContent(name, Null))

\* C16: an ACTION text, with or without parentheses, whose tool name is not
\* in ToolName fails with "Invalid tool name: <name>" and yields no
\* Activity.
C16_UnknownToolFailsDecoding ==
  IsSome(codec.activity) =>
    \A name \in CodecToolNames \ ToolName :
      (\/ \E params \in CodecParams :
            codec.response = ActionCallText(name, params)
       \/ codec.response = ActionBareText(name)) =>
        /\ Get(codec.activity).threw
        /\ Get(codec.activity).message = InvalidToolName(name)
        /\ codec.line = Null /\ codec.again = Null

C16_Witness ==
  /\ IsSome(codec.activity)
  /\ codec.response = ActionBareText("getTimes")
  /\ Get(codec.activity).threw

\* C17: for every name of ToolName, "ACTION: name(p)" and "ACTION: name"
\* decode to Action with action = name.
C17_EveryToolNameDecodes ==
  IsSome(codec.activity) =>
    \A name \in ToolName :
      (\/ \E params \in CodecParams :
            codec.response = ActionCallText(name, params)
       \/ codec.response = ActionBareText(name)) =>
        /\ ~Get(codec.activity).threw
        /\ Get(codec.activity).content.type = Action
        /\ Get(codec.activity).content.action = Some(name)

\* C18: for a marker-prefixed text that decodes, decoding the transcript
\* line of the decoded activity gives the same activity again, and the line
\* starts with the variant's marker.
C18_RoundTrip ==
  IsSome(codec.again) /\ HasHead(codec.response) =>
    /\ Get(codec.again) = Get(codec.activity)
    /\ \E i \in 1..Len(typeToKeyword) :
         /\ typeToKeyword[i].type = Get(codec.activity).content.type
         /\ StartsWith(Get(codec.line), typeToKeyword[i].keyword)

\* ------------------------------------------------ claims on getOAuthToken
\* The call was answered from the stored token, with no refresh.
ReturnedStored(call) ==
  /\ call.pc = "done" /\ ~call.threw
  /\ IsSome(call.result) /\ IsSome(call.tokenData)
  /\ call.sent = <<>>
  /\ Get(call.result) = Get(call.tokenData).access_token
\* The call read a token whose expires_at is in the past and that has a
\* refresh_token.
ExpiredWithRefresh(call) ==
  /\ IsSome(call.tokenData)
  /\ Get(call.tokenData).expires_at < call.checkedAt
  /\ Get(call.tokenData).refresh_token # Null
Settles(c) == oauth[c].pc # "done" /\ oauth'[c].pc = "done"

\* C19: whenever getOAuthToken returns the stored access_token without
\* refreshing, the token's expires_at is strictly greater than the time of
\* the check; a token with expires_at = now is not returned.
C19_NeverReturnsTokenAtOrPastExpiry ==
  \A c \in Callers :
    ReturnedStored(oauth[c]) =>
      Get(oauth[c].tokenData).expires_at > oauth[c].checkedAt

\* C20: a call that reads an expired token with a refresh_token
\* sends exactly one refresh request and, once the identity provider has
\* answered with a token, replaces the stored token under the workspace's
\* key with the refreshed one and returns the refreshed access_token.
C20_ExpiredTokenIsRefreshedOnce ==
  [][\A c \in Callers :
       Settles(c) /\ ExpiredWithRefresh(oauth'[c]) =>
         /\ Len(oauth'[c].sent) = 1
         /\ oauth'[c].sent[1] = Get(oauth'[c].tokenData).refresh_token
         /\ IsSome(oauth'[c].newToken) =>
              /\ IsSome(oauth'[c].backend)
              /\ tokens'[Get(oauth'[c].backend)]
                        [getWorkspaceTokenKey(oauth'[c].workspaceId)] =
                   Some(JSONstringifyToken(Get(oauth'[c].newToken)))
              /\ oauth'[c].result =
                   Some(Get(oauth'[c].newToken).access_token)]_vars

\* What holds of the same call: it sends exactly one refresh request; when the identity provider answers
\* with a token and the store accepts the write, the stored token under the
\* workspace's key (and no other) is replaced by the refreshed one and its
\* access_token, the one of the response, is returned; when the write fails,
\* the table is unchanged and the call returns null.
RefreshedOnceStoredIfWritable ==
  [][\A c \in Callers :
       Settles(c) /\ ExpiredWithRefresh(oauth'[c]) =>
         /\ Len(oauth'[c].sent) = 1
         /\ oauth'[c].sent[1] = Get(oauth'[c].tokenData).refresh_token
         /\ Last(oauth'[c].calls) = "storage.put" =>
              /\ tokens' = StoragePut(Get(oauth'[c].backend),
                              getWorkspaceTokenKey(oauth'[c].workspaceId),
                              JSONstringifyToken(Get(oauth'[c].newToken)))
              /\ oauth'[c].result =
                   Some(Get(oauth'[c].newToken).access_token)
              /\ Get(oauth'[c].result) \in
                   {r.access_token : r \in RefreshResponses}
         /\ Last(oauth'[c].calls) = "storage.put:throws" =>
              /\ tokens' = tokens
              /\ oauth'[c].result = Null]_vars

\* A call that refreshed the expired token of W1 and stored it.
RefreshedAndStored ==
  \E c \in Callers :
    /\ oauth[c].pc = "done"
    /\ oauth[c].calls = <<"storage.get", "fetch", "storage.put">>
    /\ oauth[c].workspaceId = "W1"
    /\ Get(oauth[c].tokenData).access_token = "a0"
    /\ oauth[c].result = Some("a1")
    /\ Get(tokens["sqlite"][getWorkspaceTokenKey("W1")]).access_token = "a1"

\* The call has read a StoredToken without a refresh_token and settled.
SettledWithoutRefreshToken(call) ==
  /\ call.op = "getOAuthToken" /\ call.pc = "done"
  /\ IsSome(call.tokenData)
  /\ Get(call.tokenData).refresh_token = Null

\* C21: a call that reads a token at or past its expiry (expires_at <= now)
\* that has no refresh_token returns null, has sent no refresh request and
\* has written nothing to the store.
C21_ExpiredWithoutRefreshTokenReturnsNull ==
  \A c \in Callers :
    (/\ SettledWithoutRefreshToken(oauth[c])
     /\ Get(oauth[c].tokenData).expires_at <= oauth[c].checkedAt) =>
      /\ oauth[c].result = Null /\ ~oauth[c].threw
      /\ oauth[c].sent = <<>>
      /\ oauth[c].calls = <<"storage.get">>

\* The same for a token whose expires_at is strictly in the past.
PastExpiryWithoutRefreshTokenReturnsNull ==
  \A c \in Callers :
    (/\ SettledWithoutRefreshToken(oauth[c])
     /\ Get(oauth[c].tokenData).expires_at < oauth[c].checkedAt) =>
      /\ oauth[c].result = Null /\ ~oauth[c].threw
      /\ oauth[c].sent = <<>>
      /\ oauth[c].calls = <<"storage.get">>

\* C22: when the identity provider answers the refresh request with a
\* non-success response, getOAuthToken throws to its caller; it returns
\* neither null nor a token.
C22_RefreshFailurePropagates ==
  \A c \in Callers :
    (/\ oauth[c].op = "getOAuthToken" /\ oauth[c].pc = "done"
     /\ oauth[c].calls # <<>>
     /\ Last(oauth[c].calls) = "fetch:not ok") =>
      oauth[c].threw

\* The getOAuthToken calls that have settled and not yet returned.
SettledTokenCalls ==
  {call \in {oauth[c] : c \in Callers} :
     call.op = "getOAuthToken" /\ call.pc = "done"}

\* C23: getOAuthToken with an empty workspaceId throws, and does so before
\* getStorage or the store is touched; it does not return null.
C23_EmptyWorkspaceIdThrows ==
  \A call \in SettledTokenCalls :
    call.workspaceId = "" =>
      /\ call.threw
      /\ call.calls = <<>> /\ call.backend = Null /\ call.sent = <<>>

C23_Witness ==
  \E call \in SettledTokenCalls : call.workspaceId = "" /\ call.threw

\* storage.get resolved for the call (neither getStorage nor get threw).
ReadTheStore(call) ==
  /\ call.calls # <<>>
  /\ call.calls[1] \notin {"getStorage:throws", "storage.get:throws"}

\* C24: with a non-empty workspaceId, when the store has no value under the
\* workspace's key, or a value that is not JSON, or an object whose
\* access_token or expires_at is missing or ill-typed, getOAuthToken returns
\* null and throws nothing (and sends no refresh request).
C24_MissingOrUnparsableYieldsNull ==
  \A call \in SettledTokenCalls :
    (/\ call.workspaceId # "" /\ ReadTheStore(call)
     /\ \/ call.tokenStr = Null
        \/ Get(call.tokenStr) \in MalformedValues) =>
      /\ call.result = Null /\ ~call.threw
      /\ call.sent = <<>> /\ call.newToken = Null

\* A call that read an object with a string expires_at and settled.
C24_Witness ==
  \E call \in SettledTokenCalls :
    /\ call.workspaceId = "W1"
    /\ call.tokenStr = Some(StringExpiresAt)
    /\ call.result = Null /\ ~call.threw

\* C25: the StoredToken built from a successful refresh response carries
\* the response's refresh_token when it has one and otherwise the
\* refresh_token of the token that was refreshed; it always has one.
C25_RefreshKeepsARefreshToken ==
  \A c \in Callers :
    (oauth[c].op = "getOAuthToken" /\ IsSome(oauth[c].response)) =>
      /\ IsSome(oauth[c].newToken)
      /\ Get(oauth[c].newToken).refresh_token # Null
      /\ Get(oauth[c].newToken).refresh_token =
           IF Get(oauth[c].response).refresh_token # Null
             THEN Get(oauth[c].response).refresh_token
             ELSE Get(oauth[c].tokenData).refresh_token

\* A refresh whose response had no refresh_token kept the prior one, "r0".
C25_Witness ==
  \E c \in Callers :
    /\ oauth[c].op = "getOAuthToken" /\ IsSome(oauth[c].response)
    /\ Get(oauth[c].response).refresh_token = Null
    /\ Get(oauth[c].tokenData).refresh_token = Some("r0")
    /\ Get(oauth[c].newToken).refresh_token = Some("r0")

\* ------------------------------------------- claims on handleOAuthCallback
\* The step is one of caller c's handleOAuthCallback call.
CallbackStep(c) ==
  /\ oauth'[c] # oauth[c]
  /\ \/ oauth[c].op = "handleOAuthCallback"
     \/ oauth'[c].op = "handleOAuthCallback"
\* The step ends the call with the success response.
Succeeds(c) == oauth'[c].pc = "done" /\ oauth'[c].status = 200

\* C26: no step of a handleOAuthCallback call changes a credential store,
\* except the one that ends it with success; a call whose grant or whose
\* workspace identity fetch failed ends with an error status; the
\* successful step writes one entry and leaves every other as it was: the
\* text of a StoredToken with the granted access_token, under
\* "agent_token_" followed by the id the identity fetch returned.
C26_ExchangeStoresOnlyOnFullSuccess ==
  [][\A c \in Callers :
       CallbackStep(c) =>
         /\ IF Succeeds(c)
              THEN /\ oauth'[c].calls = <<"token", "graphql", "storage.put">>
                   /\ IsSome(oauth'[c].backend) /\ IsSome(oauth'[c].newToken)
                   /\ Get(oauth'[c].newToken).access_token =
                        Get(Get(oauth'[c].response).access_token)
                   /\ \A b \in Backends, k \in TokenKeys :
                        tokens'[b][k] =
                          IF /\ b = Get(oauth'[c].backend)
                             /\ k = <<"agent_token_", oauth'[c].workspaceId>>
                            THEN Some(JSONstringifyToken(Get(oauth'[c].newToken)))
                            ELSE tokens[b][k]
              ELSE tokens' = tokens
         /\ (/\ oauth'[c].pc = "done"
             /\ Last(oauth'[c].calls) \in
                  {"error", "no code", "token:not ok", "token:throws",
                   "token:invalid", "graphql:throws"}) =>
              oauth'[c].status \in {400, 500}]_vars

\* An exchange for W2 succeeded on a store that held a token of W1.
C26_Witness ==
  \E c \in Callers :
    /\ oauth[c].op = "handleOAuthCallback"
    /\ oauth[c].pc = "done" /\ oauth[c].status = 200
    /\ oauth[c].workspaceId = "W2"
    /\ oauth[c].backend = Some("sqlite")
    /\ tokens["sqlite"][getWorkspaceTokenKey("W2")] =
         Some(JSONstringifyToken(Get(oauth[c].newToken)))
    /\ tokens["sqlite"][getWorkspaceTokenKey("W1")] # Null

\* The step in which caller c's getOAuthToken gets its answer from
\* getStorage and storage.get.
ReadStep(c) ==
  /\ oauth[c].op = "getOAuthToken"
  /\ oauth[c].pc = "storage.get" /\ oauth'[c].pc # "storage.get"

C28_NeverImplicitlyDeleted ==
  [][/\ \A b \in Backends, k \in TokenKeys :
          tokens[b][k] # Null => tokens'[b][k] # Null
     /\ \A c \in Callers :
          (oauth'[c] # oauth[c] /\ oauth[c].pc # "storage.put") =>
            tokens' = tokens
     /\ \A c \in Callers :
          (/\ oauth[c].pc = "fetch" /\ oauth'[c].pc = "done") =>
            /\ tokens' = tokens
            /\ oauth'[c].newToken = Null
            /\ tokens[Get(oauth[c].backend)]
                     [<<"agent_token_", oauth[c].workspaceId>>] # Null]_vars

\* A refresh failed and the value the call had read is still the stored one.
C28_Witness ==
  \E c \in Callers :
    /\ oauth[c].op = "getOAuthToken" /\ oauth[c].pc = "done"
    /\ oauth[c].calls = <<"storage.get", "fetch:not ok">>
    /\ tokens[Get(oauth[c].backend)]
             [getWorkspaceTokenKey(oauth[c].workspaceId)] = oauth[c].tokenStr
    /\ oauth[c].tokenStr # Null

\* A getOAuthToken call that refreshed workspace W's token and whose put
\* into store b succeeded.
RefreshedInto(c, W, b) ==
  /\ oauth[c].op = "getOAuthToken" /\ oauth[c].pc = "done"
  /\ oauth[c].workspaceId = W
  /\ oauth[c].backend = Some(b)
  /\ oauth[c].newToken # Null
  /\ Last(oauth[c].calls) = "storage.put"

\* The step in which the put of getOAuthToken call c succeeds.
PutStep(c) ==
  /\ oauth[c].op = "getOAuthToken" /\ oauth[c].pc = "storage.put"
  /\ oauth'[c].pc = "done"
  /\ Last(oauth'[c].calls) = "storage.put"

\* C30: nothing keeps a second getOAuthToken from reading the expired token
\* while the first one's refresh is under way, so both send a refresh
\* request.  Each put that succeeds replaces the value of the workspace's
\* key with the text of its own refreshed token, whatever another call wrote
\* there before, and no other step changes a store: once both calls have
\* completed, the store holds the token of the later put.  That value is the
\* text of a StoredToken with the access_token of the put's own refresh
\* response, a refresh_token and an expiry later than the call's check.
C30_LaterPutWins ==
  [][/\ \A c \in Callers :
          PutStep(c) =>
            LET b == Get(oauth'[c].backend)
                value == tokens'[b][getWorkspaceTokenKey(oauth[c].workspaceId)]
            IN /\ value = Some(JSONstringifyToken(Get(oauth[c].newToken)))
               /\ ~JSONparseThrows(Get(value))
               /\ isStoredToken(JSONparseToken(Get(value)))
               /\ Get(value).access_token = Get(oauth[c].response).access_token
               /\ Get(value).refresh_token # Null
               /\ Get(value).expires_at > oauth[c].checkedAt
               /\ \A d \in Callers \ {c} :
                    (/\ RefreshedInto(d, oauth[c].workspaceId, b)
                     /\ oauth[d].newToken # oauth[c].newToken) =>
                       value # Some(JSONstringifyToken(Get(oauth[d].newToken)))
     /\ (\A c \in Callers : oauth[c].pc = "storage.put" => oauth'[c] = oauth[c])
          => tokens' = tokens]_vars

\* Two calls read the same expired token, each sent a refresh request with
\* its refresh_token, both puts succeeded, and the store holds the token of
\* one of them and not the other's.
C30_Witness ==
  \E c, d \in Callers, W \in Workspaces, b \in Backends :
    /\ c # d
    /\ RefreshedInto(c, W, b) /\ RefreshedInto(d, W, b)
    /\ oauth[c].tokenStr = oauth[d].tokenStr
    /\ oauth[c].sent = oauth[d].sent /\ Len(oauth[c].sent) = 1
    /\ \E i, j \in 1..Len(refreshes) :
         /\ i < j
         /\ refreshes[i].caller = d /\ refreshes[j].caller = c
         /\ refreshes[i].refresh_token = refreshes[j].refresh_token
    /\ oauth[c].newToken # oauth[d].newToken
    /\ tokens[b][getWorkspaceTokenKey(W)]
         = Some(JSONstringifyToken(Get(oauth[c].newToken)))

\* The activityMessages the call loaded: those of the row getState read, none
\* when it read no row or threw.
LoadedMessages(t) ==
  IF IsSome(getState(t.loaded))
    THEN Get(Get(getState(t.loaded)).activityMessages) ELSE <<>>
\* What the call has pushed on its own copy when it awaits a saveState.
OwnAppends(t) ==
  <<BodyContent(UserResponse, t.userPrompt), t.content>>
    \o (IF t.pc = "saveState:result"
          THEN <<BodyContent(ToolResult, PlaceholderToolResult)>> ELSE <<>>)
\* The step in which a saveState of worker w writes the row.
SavedStep(w) ==
  /\ turn[w].pc \in {"saveState:content", "saveState:result", "saveState:catch"}
  /\ turn'[w].calls = Append(turn[w].calls, "saveState")
AllSaved(t) == t.saves # <<>> /\ \A i \in 1..Len(t.saves) : t.saves[i].ok

\* C29: handleUserPrompt takes no lock on the session, and its saveState
\* writes the whole state of its own copy.  Whatever the row held, also the
\* entries another call for the same session has persisted since this call
\* loaded, after a save the row's activityMessages are what this call loaded
\* followed by this call's own UserResponse and model activity (and
\* ToolResult), and nothing else; no other step changes a row.  So of two
\* calls that loaded the same state the later save wins and the entries of
\* the other call are gone.
C29_LaterPersistWins ==
  [][/\ \A w \in Workers :
          SavedStep(w) =>
            LET s == turn[w].sessionId
                after == Get(Get(stateStorage'[s]).state.value.activityMessages)
            IN /\ after = LoadedMessages(turn[w]) \o OwnAppends(turn[w])
               /\ \A v \in Workers \ {w} :
                    (/\ turn[v].sessionId = s /\ turn[v].pc = "return"
                     /\ turn[v].loaded = turn[w].loaded
                     /\ turn[v].calls[1] = "getState"
                     /\ turn[w].calls[1] = "getState") =>
                       Len(after) < Len(LoadedMessages(turn[w]))
                                      + Len(OwnAppends(turn[w]))
                                      + Len(BlockOf(turn[v]))
     /\ (\A w \in Workers : ~SavedStep(w)) => stateStorage' = stateStorage]_vars

\* Both calls loaded the same row of an earlier turn, both have saved and
\* completed, and the row holds the loaded messages and one call's entries,
\* without the UserResponse and the model activity of the other.
C29_Witness ==
  \E w, v \in Workers :
    /\ w # v
    /\ turn[w].pc = "return" /\ turn[v].pc = "return"
    /\ turn[w].sessionId = turn[v].sessionId
    /\ turn[w].loaded = turn[v].loaded /\ turn[w].loaded # Null
    /\ turn[w].calls[1] = "getState" /\ turn[v].calls[1] = "getState"
    /\ AllSaved(turn[w]) /\ AllSaved(turn[v])
    /\ Persisted(turn[w].sessionId)
         = LoadedMessages(turn[w]) \o BlockOf(turn[w])
    /\ BodyContent(UserResponse, turn[v].userPrompt)
         \notin InRange(Persisted(turn[w].sessionId))
    /\ turn[v].content \notin InRange(Persisted(turn[w].sessionId))

\* The row a getState call has read.
RowRead == storeCall.before[storeCall.sessionId]
\* The call has handed the row's text to decryptFn.
Decrypts ==
  /\ encryption = "default" /\ RowRead # Null
  /\ Get(RowRead).state.json
  /\ IsEncryptedState(Get(RowRead).state.value)
\* The text the call parses as the state: what decryptFn returned, or the
\* text of the row.
Payload == IF Decrypts THEN Get(storeCall.decrypted) ELSE Get(RowRead).state

\* C31: a getState call on a row returns null when decryptFn throws, when
\* the payload is not JSON, and when the version the payload declares is not
\* the version column of the row; so a state it returns has the recorded
\* version.
C31_LoadIsNullOnMismatchOrCorruption ==
  (storeCall.op = "getState" /\ RowRead # Null) =>
    /\ (Decrypts /\ storeCall.decrypted = Null) => storeCall.result = Null
    /\ ~(Decrypts /\ storeCall.decrypted = Null) =>
         /\ ~Payload.json => storeCall.result = Null
         /\ (/\ Payload.json
             /\ \/ "version" \notin DOMAIN Payload.value
                \/ Payload.value.version # Get(RowRead).version) =>
              storeCall.result = Null
    /\ storeCall.result # Null =>
         Get(storeCall.result).version = Get(RowRead).version

\* A getState call has read a row whose payload declares version 2 under
\* the recorded version 1, and has returned null.
C31_Witness ==
  /\ storeCall.op = "getState"
  /\ RowRead = Some(RowVersionMismatch)
  /\ Payload.value.version # Get(RowRead).version
  /\ storeCall.result = Null

\* C32: with no encryptFn and no decryptFn, a getState(id) made while the
\* row of the last saveState(id, s) is there (no later saveState, deleteState
\* or sweeping cleanupStates for id) returns s.
C32_LoadReturnsLastSaved ==
  (/\ storeCall.op = "getState" /\ encryption = "none"
   /\ lastSaved[storeCall.sessionId] # Null) =>
     storeCall.result = Some(Get(lastSaved[storeCall.sessionId]).state)

\* A getState has returned the state with two messages that was saved.
C32_Witness ==
  /\ storeCall.op = "getState" /\ encryption = "none"
  /\ lastSaved[storeCall.sessionId] # Null
  /\ storeCall.result # Null
  /\ Get(storeCall.result) = Get(lastSaved[storeCall.sessionId]).state
  /\ Get(storeCall.result).activityMessages = Some(PriorMessages)

\* How many of the calls a turn has made are calls of the model, of the
\* Tool Dispatcher.
Count(calls, names) == Cardinality({i \in 1..Len(calls) : calls[i] \in names})
ModelCalls == {"chat.completions.create", "chat.completions.create:throws"}
DispatchCalls == {"executeAction", "executeAction:throws"}
\* The calls of the turns that have settled, delivered or about to be.
SettledTurns ==
  UNION {InRange(delivered[s]) : s \in Sessions}
    \cup {[userPrompt |-> turn[w].userPrompt, threw |-> turn[w].pc = "thrown",
           content |-> ReturnValue(turn[w]), calls |-> turn[w].calls] :
            w \in {v \in Workers : turn[v].pc \in {"return", "thrown"}}}
DispatchedOnlyActions ==
  /\ \A w \in Workers :
       /\ Count(turn[w].calls, ModelCalls) <= 1
       /\ Count(turn[w].calls, DispatchCalls) <= 1
  /\ \A e \in SettledTurns :
       Count(e.calls, DispatchCalls) = 1 =>
         /\ e.content.type = Action
         /\ Count(e.calls, ModelCalls) = 1

\* C33: every turn that has settled, the one with the empty prompt too, has
\* called the model exactly once; it has called the Tool Dispatcher at most
\* once, and only when the model's activity was an Action.
C33_ModelOnceDispatchAtMostOnce ==
  /\ DispatchedOnlyActions
  /\ \A e \in SettledTurns : Count(e.calls, ModelCalls) = 1

\* What holds of C33: the same for every turn that did not throw at the push
\* of its UserResponse.
ModelOnceUnlessPushThrows ==
  /\ DispatchedOnlyActions
  /\ \A e \in SettledTurns : ~e.threw => Count(e.calls, ModelCalls) = 1
  /\ \A e \in SettledTurns : e.threw => Count(e.calls, ModelCalls) = 0

\* The model replied and its reply decoded to an activity.
Decoded_(t) ==
  /\ IsSome(t.response)
  /\ ~mapResponseToLinearActivityContent(Get(t.response)).threw
Loads == {"getState", "getState:throws"}
SaveCalls == {"saveState", "saveState:throws"}
\* The activityMessages of the row a save has left.
MessagesAfter(save) == Get(Get(save.after).state.value.activityMessages)
\* The calls of a settled turn, in order, with each save among `saves`.
StepsInOrder(t, saves) ==
  IF DecodedAction(t)
    THEN /\ Len(t.calls) = 5
         /\ t.calls[1] \in Loads
         /\ t.calls[2] = "chat.completions.create"
         /\ t.calls[3] \in saves
         /\ t.calls[4] = "executeAction"
         /\ t.calls[5] \in saves
    ELSE /\ Len(t.calls) = 3
         /\ t.calls[1] \in Loads
         /\ t.calls[2] = "chat.completions.create"
         /\ t.calls[3] \in saves
\* A save that has written has left the turn's messages in the row: after
\* the first save they end with the decoded activity, after the second with
\* that Action and its ToolResult.
SavesWriteTheTurn(t) ==
  /\ Len(t.saves) = (IF DecodedAction(t) THEN 2 ELSE 1)
  /\ t.saves[1].ok =>
       /\ t.saves[1].after # Null
       /\ Last(MessagesAfter(t.saves[1])) = t.content
  /\ (DecodedAction(t) /\ t.saves[2].ok) =>
       /\ t.saves[2].after # Null
       /\ LastTwo(MessagesAfter(t.saves[2]))
            = <<t.content, BodyContent(ToolResult, PlaceholderToolResult)>>

\* C34 (as claimed): in a turn whose reply decoded, the state with the
\* decoded activity is in the store before the Tool Dispatcher is called,
\* an Action turn stores the state again after the ToolResult, and any other
\* turn stores it exactly once, after the model call.
C34_PersistedBeforeDispatch ==
  \A w \in Workers :
    LET t == turn[w] IN
    (t.pc = "return" /\ Decoded_(t)) =>
      /\ StepsInOrder(t, {"saveState"})
      /\ SavesWriteTheTurn(t)
      /\ \A i \in 1..Len(t.saves) : t.saves[i].ok

\* C34 (amended): the saves are made in that order, whether or not they
\* write: saveState is awaited once after the model call, the Tool
\* Dispatcher is called after it, and in an Action turn saveState is awaited
\* once more after the ToolResult was appended.  A save that writes leaves
\* the turn's messages in the row; one that fails leaves the row as it was
\* and the turn goes on.
C34_SavesInOrder ==
  \A w \in Workers :
    LET t == turn[w] IN
    /\ t.pc = "executeAction" =>
         /\ Len(t.calls) = 3 /\ t.calls[3] \in SaveCalls /\ Len(t.saves) = 1
    /\ (t.pc = "return" /\ Decoded_(t)) =>
         /\ StepsInOrder(t, SaveCalls)
         /\ SavesWriteTheTurn(t)
         /\ \A i \in 1..Len(t.saves) :
              /\ t.saves[i].ok <=> t.calls[IF i = 1 THEN 3 ELSE 5] = "saveState"
              /\ ~t.saves[i].ok => t.saves[i].after = t.saves[i].before

\* An Action turn that saved, dispatched and saved again, both saves having
\* written.
C34_Witness ==
  \E w \in Workers :
    /\ turn[w].pc = "return" /\ DecodedAction(turn[w])
    /\ turn[w].calls = <<"getState", "chat.completions.create", "saveState",
                         "executeAction", "saveState">>
    /\ Len(turn[w].saves) = 2
    /\ turn[w].saves[1].ok /\ turn[w].saves[2].ok
    /\ Len(MessagesAfter(turn[w].saves[2]))
         = Len(MessagesAfter(turn[w].saves[1])) + 1

\* What every call of the store leaves of the rows it found, cleanupStates
\* apart: deleteState(id) takes away the row of id and no other; saveState
\* and getState, the only methods the AgentClient calls, take away none.
OnlyDeleteAndCleanupRemove ==
  /\ storeCall.op = "deleteState" =>
       stateStorage = [storeCall.before EXCEPT ![storeCall.sessionId] = Null]
  /\ storeCall.op = "getState" => stateStorage = storeCall.before
  /\ storeCall.op = "saveState" =>
       /\ stateStorage[storeCall.sessionId] # Null
       /\ \A s \in Sessions \ {storeCall.sessionId} :
            stateStorage[s] = storeCall.before[s]
MsPerDay == SecondsPerDay * 1000

\* C35 (as claimed): the same, and cleanupStates(olderThanDays) takes away
\* exactly the rows whose last save was before Date.now() minus olderThanDays
\* days, and leaves the others as they were.
C35_RemovedOnlyByDeleteOrCleanup ==
  /\ OnlyDeleteAndCleanupRemove
  /\ storeCall.op = "cleanupStates" =>
       \A s \in Sessions :
         storeCall.savedAt[s] # Null =>
           stateStorage[s] =
             IF Get(storeCall.savedAt[s])
                  < storeCall.at - (storeCall.olderThanDays * MsPerDay)
               THEN Null ELSE storeCall.before[s]

\* C35 (amended): cleanupStates compares whole seconds: it takes away
\* exactly the rows whose last_updated, the second of their last save, is
\* less than the second of Date.now() minus olderThanDays * 86400, and
\* leaves the others as they were.
C35_CleanupComparesSeconds ==
  /\ OnlyDeleteAndCleanupRemove
  /\ storeCall.op = "cleanupStates" =>
       \A s \in Sessions :
         stateStorage[s] =
           IF /\ storeCall.before[s] # Null
              /\ Get(storeCall.before[s]).last_updated
                   < (storeCall.at \div 1000)
                       - (storeCall.olderThanDays * SecondsPerDay)
             THEN Null ELSE storeCall.before[s]
  /\ \A s \in Sessions :
       (lastSaved[s] # Null /\ stateStorage[s] # Null) =>
         Get(stateStorage[s]).last_updated = Get(lastSaved[s]).at \div 1000

\* cleanupStates(0) has taken away the row of one session, saved in an
\* earlier second, and left the row of the other, saved in this second.
C35_Witness ==
  /\ storeCall.op = "cleanupStates" /\ storeCall.olderThanDays = 0
  /\ \E s, r \in Sessions :
       /\ storeCall.before[s] # Null /\ stateStorage[s] = Null
       /\ storeCall.before[r] # Null /\ stateStorage[r] = storeCall.before[r]
       /\ Get(storeCall.before[r]).last_updated = storeCall.at \div 1000

\* No step of a turn takes a row away.
NoTurnStepRemoves ==
  [][\A s \in Sessions : stateStorage[s] # Null => stateStorage'[s] # Null]_vars

\* The key defaultEncrypt drew for the row a getState call has read.
EncryptKey == Get(RowRead).state.value.encrypted.key

\* C36: with the default helper pair, a getState call whose defaultDecrypt
\* has drawn a key other than the one defaultEncrypt drew for the row returns
\* null, whatever state was saved, and getOrInitializeState then starts the
\* turn from the fresh state with no message and no context.
C36_DefaultPairLosesState ==
  (/\ storeCall.op = "getState" /\ Decrypts
   /\ storeCall.key # Some(EncryptKey)) =>
     /\ storeCall.result = Null
     /\ OrInitialize(storeCall.result, storeCall.at) = NewState(storeCall.at)
     /\ NewState(storeCall.at).activityMessages = Some(<<>>)
     /\ NewState(storeCall.at).issueContext = Some(EmptyContext)

\* A state with messages was saved with defaultEncrypt under one key, and
\* the getState that followed drew the other key and returned null.
C36_Witness ==
  /\ storeCall.op = "getState" /\ Decrypts
  /\ lastSaved[storeCall.sessionId] # Null
  /\ Get(lastSaved[storeCall.sessionId]).state.activityMessages
       = Some(PriorMessages)
  /\ Get(lastSaved[storeCall.sessionId]).key = Some(EncryptKey)
  /\ storeCall.key # Some(EncryptKey)
  /\ storeCall.result = Null

\* C37: a turn for session A reads A's row only and writes A's row only.
\* The state it starts from is what getState gives for A's row; a row
\* changes only in the step in which a turn for that very session saves, and
\* then to the row of what that turn loaded followed by its own entries;
\* the row of every other session, its activityMessages and issueContext
\* with it, is the same after the step as before, however the turns of the
\* two sessions interleave.
C37_SessionIsolation ==
  [][/\ \A B \in Sessions :
          stateStorage'[B] # stateStorage[B] =>
            \E w \in Workers :
              /\ SavedStep(w) /\ turn[w].sessionId = B
              /\ Persisted(B)' = LoadedMessages(turn[w]) \o OwnAppends(turn[w])
              /\ turn[w].calls[1] = "getState" =>
                   \/ turn[w].loaded = Null
                   \/ turn[w].loaded \in {turn[w].prior} \cup
                        {turn[w].saves[i].before : i \in 1..Len(turn[w].saves)}
     /\ \A w \in Workers :
          (turn[w].pc = "getOrInitializeState" /\ turn'[w] # turn[w]) =>
            /\ stateStorage' = stateStorage
            /\ turn'[w].calls[1] = "getState" =>
                 /\ turn'[w].loaded = stateStorage[turn[w].sessionId]
                 /\ turn'[w].pc # "thrown" =>
                      Get(turn'[w].state.activityMessages)
                        = LoadedMessages(turn'[w])
                            \o <<BodyContent(UserResponse, turn[w].userPrompt)>>
     /\ \A w \in Workers : \A B \in Sessions \ {turn[w].sessionId} :
          turn'[w] # turn[w] =>
            /\ stateStorage'[B] = stateStorage[B]
            /\ Persisted(B)' = Persisted(B)
            /\ PersistedContext(B)' = PersistedContext(B)]_vars

\* Two turns are under way at once, for different sessions; one has saved
\* its session's row, and the row of the other session, which the other
\* turn has loaded, is still the earlier turn's.
C37_Witness ==
  \E w, v \in Workers :
    /\ turn[w].sessionId # turn[v].sessionId
    /\ turn[w].pc = "return" /\ AllSaved(turn[w])
    /\ turn[v].pc = "callOpenAI" /\ turn[v].calls = <<"getState">>
    /\ turn[v].loaded = Some(RowWellFormed)
    /\ stateStorage[turn[v].sessionId] = Some(RowWellFormed)
    /\ Persisted(turn[w].sessionId)
         = LoadedMessages(turn[w]) \o BlockOf(turn[w])
    /\ Persisted(turn[w].sessionId) # Persisted(turn[v].sessionId)

\* The stored value is one getOAuthToken answers without a refresh: none,
\* text that is no StoredToken, a token that has not expired at `now`, or an
\* expired one without refresh_token.
NoRefreshDue(tokenStr, now) ==
  \/ tokenStr = Null
  \/ ~Get(tokenStr).json
  \/ Get(tokenStr).typeof.access_token # "string"
  \/ Get(tokenStr).typeof.expires_at # "number"
  \/ Get(tokenStr).expires_at >= now
  \/ Get(tokenStr).refresh_token = Null
\* A step of caller c's getOAuthToken call.
TokenStep(c) ==
  /\ oauth'[c] # oauth[c]
  /\ "getOAuthToken" \in {oauth[c].op, oauth'[c].op}
\* The step in which the call's storage.get resolves.
GetResolves(c) ==
  /\ TokenStep(c) /\ oauth[c].pc = "storage.get"
  /\ oauth'[c].backend # Null
  /\ oauth'[c].calls[Len(oauth'[c].calls)] # "storage.get:throws"
OwnKey(call) == <<"agent_token_", call.workspaceId>>

\* C38: getOAuthToken(W) changes the value of no key but W's, and W's only
\* in its setOAuthToken after the refresh request was answered with a token,
\* to the text of the refreshed token; it reads the value under W's key;
\* when that value is missing, malformed, a token that has not expired, or
\* an expired one without refresh_token, the call settles in that step with
\* the tokens unchanged and no refresh request sent; and a token it returns
\* is the access_token it read under W's key or the one the refresh of that
\* token answered.
C38_WritesOwnKeyAfterRefresh ==
  [][\A c \in Callers :
       /\ TokenStep(c) =>
            \A b \in Backends, k \in TokenKeys :
              tokens'[b][k] # tokens[b][k] =>
                /\ k = OwnKey(oauth[c])
                /\ oauth[c].pc = "storage.put"
                /\ IsSome(oauth[c].response)
                /\ oauth[c].calls[Len(oauth[c].calls)] = "fetch"
                /\ Get(oauth[c].newToken).access_token
                     = Get(oauth[c].response).access_token
                /\ tokens'[b][k]
                     = Some(JSONstringifyToken(Get(oauth[c].newToken)))
       /\ GetResolves(c) =>
            LET stored == tokens[Get(oauth'[c].backend)][OwnKey(oauth[c])]
            IN /\ oauth'[c].tokenStr = stored
               /\ NoRefreshDue(stored, Now) =>
                    /\ oauth'[c].pc = "done"
                    /\ oauth'[c].sent = <<>>
                    /\ refreshes' = refreshes
                    /\ tokens' = tokens
       /\ (TokenStep(c) /\ Settles(c) /\ IsSome(oauth'[c].result)) =>
            Get(oauth'[c].result) =
              IF oauth'[c].sent = <<>>
                THEN Get(oauth'[c].tokenStr).access_token
                ELSE Get(oauth'[c].response).access_token]_vars

\* One call has refreshed W1's expired token and stored the new one under
\* W1's key while W2's stored token is the one the table began with; another
\* call, for W2, was answered from that token with no refresh request.
C38_Witness ==
  \E c, d \in Callers, b \in Backends :
    /\ oauth[c].op = "getOAuthToken" /\ oauth[c].pc = "done"
    /\ oauth[c].workspaceId = "W1"
    /\ oauth[c].calls = <<"storage.get", "fetch", "storage.put">>
    /\ tokens[b][OwnKey(oauth[c])]
         = Some(JSONstringifyToken(Get(oauth[c].newToken)))
    /\ oauth[d].op = "getOAuthToken" /\ oauth[d].pc = "done"
    /\ oauth[d].workspaceId = "W2"
    /\ oauth[d].calls = <<"storage.get">> /\ oauth[d].sent = <<>>
    /\ oauth[d].result = Some("b0")
    /\ tokens["sqlite"][OwnKey(oauth[d])] = oauth[d].tokenStr
    /\ oauth[c].result # Null /\ oauth[c].result # oauth[d].result
    /\ Len(refreshes) = 1 /\ refreshes[1].caller = c

====
